---- MODULE Spec2Model ----
(***************************************************************************)
(* Bank-statement ingestion and reconciliation of cabianca-gestionale:     *)
(* the upload handler (dedup + persist + reconcile_batch), the manual      *)
(* override routes (riconcilia, ignora, ripristina, crea_movimento,        *)
(* regole_riapplica), deletion of ledger entries and ignore reasons, and   *)
(* the same handlers run as interleaved database transactions.             *)
(*                                                                         *)
(* Conventions: a NULL id or date is 0, a NULL/empty string is <<>> or     *)
(* "none"; text that the code takes apart (names, rule patterns) is a      *)
(* sequence of characters, a character being a natural number: 0 is the    *)
(* space, 1..9 are upper-case letters and 11..19 their lower-case forms.   *)
(* Amounts are whole currency units, dates are day numbers.                *)
(***************************************************************************)
EXTENDS Integers, Sequences, FiniteSets, TLC

VARIABLES
    bank_transactions,  \* table bank_transactions: id -> row
    transactions,       \* table transactions (ledger entries): id -> row
    bank_balances,      \* table bank_balances: sequence of rows
    auto_rules,         \* table auto_rules: id -> row
    ignore_reasons,     \* table ignore_reasons: set of ids
    flashed,            \* the last flash()/report of a handler
    decisions,          \* per movement id: what reconcile_batch last decided
    manual_ops,         \* number of manual route calls made so far
    last_import,        \* the file last imported with no other write since
    sessions            \* per worker: its open database transaction

vars == <<bank_transactions, transactions, bank_balances, auto_rules,
          ignore_reasons, flashed, decisions, manual_ops, last_import, sessions>>

----------------------------------------------------------------------------
(* Bounds and program constants *)

MaxTx == 5          \* largest id a ledger entry may get
MaxManual == 2      \* manual route calls in a run
MaxRuns == 2        \* requests per worker in the concurrent runs

AUTO_MATCH_THRESHOLD == 80
NoId == 0

----------------------------------------------------------------------------
(* Generic helpers *)

Max(S) == CHOOSE x \in S : \A y \in S : y <= x
MaxOr0(S) == IF S = {} THEN 0 ELSE Max(S)
Abs(x) == IF x < 0 THEN -x ELSE x

\* The rows of a table in rowid order.
RECURSIVE SortedIds(_)
SortedIds(S) ==
    IF S = {} THEN <<>>
    ELSE LET m == CHOOSE x \in S : \A y \in S : x <= y
         IN <<m>> \o SortedIds(S \ {m})

----------------------------------------------------------------------------
(* Text: str.upper(), str.strip(), the `in` operator, SequenceMatcher *)

Upper(s) == [i \in 1..Len(s) |-> IF s[i] > 10 THEN s[i] - 10 ELSE s[i]]

RECURSIVE LStrip(_)
LStrip(s) == IF s # <<>> /\ Head(s) = 0 THEN LStrip(Tail(s)) ELSE s

RECURSIVE RStrip(_)
RStrip(s) ==
    IF s # <<>> /\ s[Len(s)] = 0 THEN RStrip(SubSeq(s, 1, Len(s) - 1)) ELSE s

Strip(s) == RStrip(LStrip(s))

\* Python's `s in t` on strings.
Contains(t, s) ==
    \E i \in 0..(Len(t) - Len(s)) : SubSeq(t, i + 1, i + Len(s)) = s

\* Length of the common run of a from i and b from j, below ahi and bhi.
RECURSIVE RunLen(_, _, _, _, _, _)
RunLen(a, b, i, j, ahi, bhi) ==
    IF i >= ahi \/ j >= bhi THEN 0
    ELSE IF a[i] # b[j] THEN 0
    ELSE 1 + RunLen(a, b, i + 1, j + 1, ahi, bhi)

\* SequenceMatcher.find_longest_match: the longest block, earliest in a,
\* then earliest in b.
LongestMatch(a, b, alo, ahi, blo, bhi) ==
    LET cands == {<<i, j>> : i \in alo..(ahi - 1), j \in blo..(bhi - 1)}
        len(c) == RunLen(a, b, c[1], c[2], ahi, bhi)
        best == CHOOSE c \in cands :
                  \A d \in cands :
                     \/ len(c) > len(d)
                     \/ /\ len(c) = len(d)
                        /\ \/ c[1] < d[1]
                           \/ c[1] = d[1] /\ c[2] <= d[2]
    IN <<best[1], best[2], len(best)>>

\* SequenceMatcher.get_matching_blocks: total size of the matching blocks.
RECURSIVE MatchingSize(_, _, _, _, _, _)
MatchingSize(a, b, alo, ahi, blo, bhi) ==
    IF alo >= ahi \/ blo >= bhi THEN 0
    ELSE LET m == LongestMatch(a, b, alo, ahi, blo, bhi)
         IN IF m[3] = 0 THEN 0
            ELSE m[3] + MatchingSize(a, b, alo, m[1], blo, m[2])
                      + MatchingSize(a, b, m[1] + m[3], ahi, m[2] + m[3], bhi)

\* SequenceMatcher.ratio() as the fraction <<2*M, T>>.
Ratio(a, b) ==
    IF Len(a) + Len(b) = 0 THEN <<1, 1>>
    ELSE <<2 * MatchingSize(a, b, 1, Len(a) + 1, 1, Len(b) + 1), Len(a) + Len(b)>>

\* _name_similarity, as a fraction <<num, den>>.
NameSimilarity(name1, name2) ==
    IF name1 = <<>> \/ name2 = <<>> THEN <<0, 1>>
    ELSE LET n1 == Strip(Upper(name1))
             n2 == Strip(Upper(name2))
         IN IF Contains(n2, n1) \/ Contains(n1, n2) THEN <<9, 10>>
            ELSE Ratio(n1, n2)

----------------------------------------------------------------------------
(* The data the runs draw from *)

None == -1          \* a NULL amount bound of a rule

DirC == <<3>>       \* "C", credit
DirD == <<4>>       \* "D", debit

\* _get_causale_abi_description: the text of a bank reason code.
CausaleDescription(code) ==
    CASE code = "480" -> <<2, 15, 14>>     \* "Bonifico ricevuto"
      [] code = "260" -> <<4, 19, 13>>     \* "Disposizione di pagamento"
      [] OTHER -> <<>>

\* The dedup hash: a function of exactly these five fields.
DedupHash(operation_date, amount, reference_code, causale_abi, counterpart_name) ==
    <<operation_date, amount, reference_code, causale_abi, counterpart_name>>

\* The dict _build_transaction returns for one 62 record.
TxData(op, val, amt, dir, causale, name, remit, ref) ==
    [operation_date |-> op, value_date |-> val, amount |-> amt,
     direction |-> dir, causale_abi |-> causale,
     causale_description |-> CausaleDescription(causale),
     counterpart_name |-> name, remittance_info |-> remit,
     reference_code |-> ref,
     dedup_hash |-> DedupHash(op, amt, ref, causale, name)]

mA  == TxData(105, 105, 1000, DirD, "260", <<1, 2>>, <<>>, "r1")
mA2 == TxData(105, 104, 1000, DirC, "260", <<1, 2>>, <<>>, "r1")  \* same hash as mA
mC  == TxData(105, 106, 150, DirC, "480", <<3>>, <<>>, "r3")

Balance(d, t, b) == [date |-> d, type |-> t, balance |-> b]

\* What parse_cbi_file returns for the statement files of the runs.
Files ==
    { [transactions |-> <<mA, mC>>,
       balances |-> <<Balance(105, "apertura", 10), Balance(105, "chiusura", 20)>>],
      [transactions |-> <<mA2, mA>>, balances |-> <<>>],
      [transactions |-> <<>>, balances |-> <<>>] }

\* A row of table transactions.
LedgerRow(type, source, amount, date, contact, status, paid_on) ==
    [type |-> type, source |-> source, amount |-> amount, date |-> date,
     contact_name |-> contact, payment_status |-> status, payment_date |-> paid_on]

InitialLedger ==
    (1 :> LedgerRow("uscita", "sdi", 1000, 100, <<11, 12>>, "da_pagare", 0)) @@
    (2 :> LedgerRow("uscita", "manuale", 1000, 100, <<1, 2>>, "pagato", 100)) @@
    (3 :> LedgerRow("entrata", "sdi", 150, 100, <<3>>, "da_pagare", 0))

\* A row of table auto_rules.
Rule(name, priority, applies_to, desc, cp, piva, causale, amin, amax, dir, auto) ==
    [name |-> name, active |-> TRUE, priority |-> priority, applies_to |-> applies_to,
     match_description |-> desc, match_counterpart |-> cp,
     match_partita_iva |-> piva, match_causale_abi |-> causale,
     match_amount_min |-> amin, match_amount_max |-> amax,
     match_direction |-> dir, action_auto_create |-> auto]

InitialRules ==
    (1 :> Rule("incassi", 10, "banca", <<>>, <<>>, "", "", 100, 200, <<>>, TRUE)) @@
    (2 :> Rule("addebiti", 20, "tutti", <<14>>, <<>>, "", "260", None, None, <<14>>, FALSE)) @@
    (3 :> Rule("fatture", 30, "sdi", <<>>, <<>>, "", "", None, None, <<>>, TRUE))

IgnoreReasonIds == {1}

\* The rule selections posted to regole_riapplica.
RuleIdChoices == {{1}, {2}, {1, 2, 3}}

----------------------------------------------------------------------------
(* Rule engine (rules_engine.py) *)

\* rule_data built from a movement in reconcile_batch and regole_riapplica;
\* it carries no partita_iva key.
RuleData(bt) ==
    [description |-> bt.causale_description, counterpart |-> bt.counterpart_name,
     partita_iva |-> "", causale_abi |-> bt.causale_abi, amount |-> bt.amount,
     direction |-> bt.direction, remittance_info |-> bt.remittance_info]

\* A _matches without the check of the upper amount bound.
MatchesMissingAmountMax(rule, data) ==
    /\ rule.match_description # <<>> =>
          \/ Contains(Upper(data.description), Upper(rule.match_description))
          \/ Contains(Upper(data.remittance_info), Upper(rule.match_description))
    /\ rule.match_counterpart # <<>> =>
          Contains(Upper(data.counterpart), Upper(rule.match_counterpart))
    /\ rule.match_partita_iva # "" => data.partita_iva = rule.match_partita_iva
    /\ rule.match_causale_abi # "" => data.causale_abi = rule.match_causale_abi
    /\ rule.match_amount_min # None => ~(data.amount < rule.match_amount_min)
    /\ rule.match_direction # <<>> =>
          Upper(data.direction) = Upper(rule.match_direction)

\* _matches: the conjunction of the predicates the rule sets.
Matches(rule, data) ==
    /\ rule.match_description # <<>> =>
          \/ Contains(Upper(data.description), Upper(rule.match_description))
          \/ Contains(Upper(data.remittance_info), Upper(rule.match_description))
    /\ rule.match_counterpart # <<>> =>
          Contains(Upper(data.counterpart), Upper(rule.match_counterpart))
    /\ rule.match_partita_iva # "" => data.partita_iva = rule.match_partita_iva
    /\ rule.match_causale_abi # "" => data.causale_abi = rule.match_causale_abi
    /\ rule.match_amount_min # None => ~(data.amount < rule.match_amount_min)
    /\ rule.match_amount_max # None => ~(data.amount > rule.match_amount_max)
    /\ rule.match_direction # <<>> =>
          Upper(data.direction) = Upper(rule.match_direction)

\* The orders in which ORDER BY priority DESC may return the rules of table
\* `rules`: rows of equal priority come in an order the database chooses.
RuleOrders(rules) ==
    LET ids == DOMAIN rules
        n == Cardinality(ids)
    IN { o \in [1..n -> ids] :
           /\ \A i, j \in 1..n : i # j => o[i] # o[j]
           /\ \A i, j \in 1..n : i < j => rules[o[i]].priority >= rules[o[j]].priority }

\* The query of apply_rules / apply_specific_rules: the active rules of the
\* source, restricted to `only`, in the order `ord`.
ApplicableRules(rules, ord, source, only) ==
    SelectSeq(ord, LAMBDA r : /\ r \in only
                              /\ rules[r].active
                              /\ rules[r].applies_to \in {source, "tutti"})

\* The loop of apply_rules: the id of the first rule that matches, or NoId.
FirstMatching(rules, seq, data) ==
    LET hits == {i \in 1..Len(seq) : Matches(rules[seq[i]], data)}
    IN IF hits = {} THEN NoId
       ELSE seq[CHOOSE i \in hits : \A j \in hits : i <= j]

apply_rules(rules, ord, data, source) ==
    FirstMatching(rules, ApplicableRules(rules, ord, source, DOMAIN rules), data)

apply_specific_rules(rules, ord, data, source, rule_ids) ==
    FirstMatching(rules, ApplicableRules(rules, ord, source, rule_ids), data)

----------------------------------------------------------------------------
(* Matching (reconciliation.py) *)

TxType(bt) == IF bt.direction = DirC THEN "entrata" ELSE "uscita"

\* A subquery that sees the links of the earlier batches only.
AlreadyMatchedBeforeBatch(bts, id) ==
    {bts[o].matched_transaction_id :
        o \in {x \in DOMAIN bts : /\ bts[x].import_batch_id # bts[id].import_batch_id
                                  /\ bts[x].matched_transaction_id # NoId}}

\* The subquery of _get_candidates: entries linked to another movement.
AlreadyMatched(bts, id) ==
    {bts[o].matched_transaction_id :
        o \in {x \in DOMAIN bts : x # id /\ bts[x].matched_transaction_id # NoId}}

\* A candidate query without the exclusion of linked entries.
GetCandidatesAnyLinked(bts, txs, id, source) ==
    {t \in DOMAIN txs :
        /\ txs[t].source = source
        /\ txs[t].type = TxType(bts[id])
        /\ txs[t].date >= bts[id].operation_date - 30
        /\ txs[t].date <= bts[id].operation_date + 30
        /\ source = "sdi" => txs[t].payment_status \in {"da_pagare", "parziale"}}

\* _get_candidates
GetCandidates(bts, txs, id, source) ==
    {t \in DOMAIN txs :
        /\ txs[t].source = source
        /\ txs[t].type = TxType(bts[id])
        /\ txs[t].date >= bts[id].operation_date - 30
        /\ txs[t].date <= bts[id].operation_date + 30
        /\ source = "sdi" => txs[t].payment_status \in {"da_pagare", "parziale"}
        /\ t \notin AlreadyMatched(bts, id)}

\* An amount dimension with the points of its two bands exchanged.
AmountScoreBandsSwapped(bt_amount, tx_amount) ==
    IF tx_amount > 0
    THEN IF Abs(bt_amount - tx_amount) * 100 <= 2 * tx_amount THEN 20
         ELSE IF Abs(bt_amount - tx_amount) * 100 <= 10 * tx_amount THEN 50
         ELSE 0
    ELSE 0

\* _compute_score, by dimension.
AmountScore(bt_amount, tx_amount) ==
    IF tx_amount > 0
    THEN IF Abs(bt_amount - tx_amount) * 100 <= 2 * tx_amount THEN 50
         ELSE IF Abs(bt_amount - tx_amount) * 100 <= 10 * tx_amount THEN 20
         ELSE 0
    ELSE 0

\* The names that occur in the runs, and their similarities (computed once).
Names == {<<>>, <<1, 2>>, <<11, 12>>, <<3>>, <<1, 3>>}

SimilarityOf[p \in Names \X Names] == NameSimilarity(p[1], p[2])

\* The thresholds 0.7 and 0.4 on a similarity <<num, den>>.
SimilarityScore(sim) ==
    IF sim[1] * 10 > 7 * sim[2] THEN 30
    ELSE IF sim[1] * 10 > 4 * sim[2] THEN 15
    ELSE 0

NameScore(counterpart_name, contact_name) ==
    IF counterpart_name # <<>> /\ contact_name # <<>>
    THEN SimilarityScore(SimilarityOf[<<counterpart_name, contact_name>>])
    ELSE 0

\* A date dimension with the points of its two bands exchanged.
DateScoreBandsSwapped(operation_date, tx_date) ==
    IF tx_date # 0
    THEN IF Abs(operation_date - tx_date) <= 7 THEN 10
         ELSE IF Abs(operation_date - tx_date) <= 15 THEN 20
         ELSE 0
    ELSE 0

\* The date dimension of _compute_score.
DateScore(operation_date, tx_date) ==
    IF tx_date # 0
    THEN IF Abs(operation_date - tx_date) <= 7 THEN 20
         ELSE IF Abs(operation_date - tx_date) <= 15 THEN 10
         ELSE 0
    ELSE 0

ComputeScore(bt, tx) ==
    AmountScore(bt.amount, tx.amount)
    + NameScore(bt.counterpart_name, tx.contact_name)
    + DateScore(bt.operation_date, tx.date)

\* The loop of _find_best_match: the score of every candidate.
Scores(bts, txs, id, source) ==
    [t \in GetCandidates(bts, txs, id, source) |-> ComputeScore(bts[id], txs[t])]

\* A loop that keeps the first candidate of a score above 0.
BestOfFirst(sc) ==
    LET pos == {t \in DOMAIN sc : sc[t] > 0}
    IN IF pos = {} THEN <<NoId, 0>>
       ELSE LET first == CHOOSE t \in pos : \A u \in pos : t <= u
            IN <<first, sc[first]>>

\* The result of that loop: the first candidate, in row order, of the highest
\* score above 0; <<NoId, 0>> stands for None.
BestOf(sc) ==
    LET pos == {t \in DOMAIN sc : sc[t] > 0}
    IN IF pos = {} THEN <<NoId, 0>>
       ELSE LET best == CHOOSE t \in pos :
                          \A u \in pos : sc[t] > sc[u] \/ (sc[t] = sc[u] /\ t <= u)
            IN <<best, sc[best]>>

\* _find_best_match
FindBestMatch(bts, txs, id, source) == BestOf(Scores(bts, txs, id, source))

\* Highest score among scored candidates (0 when there is none).
MaxScore(sc) == MaxOr0({sc[t] : t \in DOMAIN sc})

\* A link that marks the entry paid whatever its source.
LinkTransactionAnySource(bts, txs, id, t, matched_by) ==
    [bt |-> [bts EXCEPT ![id].status = "riconciliato",
                        ![id].matched_transaction_id = t,
                        ![id].matched_by = matched_by],
     tx |-> IF txs[t].payment_status \in {"da_pagare", "parziale"}
            THEN [txs EXCEPT ![t].payment_status = "pagato",
                             ![t].payment_date = bts[id].operation_date]
            ELSE txs]

\* _link_transaction, on the pair of tables.
LinkTransaction(bts, txs, id, t, matched_by) ==
    [bt |-> [bts EXCEPT ![id].status = "riconciliato",
                        ![id].matched_transaction_id = t,
                        ![id].matched_by = matched_by],
     tx |-> IF txs[t].source = "sdi" /\ txs[t].payment_status \in {"da_pagare", "parziale"}
            THEN [txs EXCEPT ![t].payment_status = "pagato",
                             ![t].payment_date = bts[id].operation_date]
            ELSE txs]

\* An entry dated by the value date of the movement.
TransactionFromBankValueDate(bt) ==
    LedgerRow(TxType(bt), "banca", bt.amount, bt.value_date, <<>>,
              "pagato", bt.value_date)

\* The Transaction row both create functions build from a movement.
TransactionFromBank(bt) ==
    LedgerRow(TxType(bt), "banca", bt.amount, bt.operation_date, <<>>,
              "pagato", bt.operation_date)

\* INTEGER PRIMARY KEY: the next rowid is the largest one plus one.
NextId(table) == MaxOr0(DOMAIN table) + 1

\* A reconcile_batch that would try the matches before the rule.
StageOfMatchBeforeRule(rule_auto, sdi_score, other_score) ==
    IF sdi_score >= AUTO_MATCH_THRESHOLD THEN 2
    ELSE IF other_score >= AUTO_MATCH_THRESHOLD THEN 3
    ELSE IF rule_auto THEN 1
    ELSE 0

\* The stage of reconcile_batch that acts for a movement: 1 rule auto-create,
\* 2 structured (sdi) match, 3 manual/bank match, 0 none (stays pending).
StageOf(rule_auto, sdi_score, other_score) ==
    IF rule_auto THEN 1
    ELSE IF sdi_score >= AUTO_MATCH_THRESHOLD THEN 2
    ELSE IF other_score >= AUTO_MATCH_THRESHOLD THEN 3
    ELSE 0

\* What reconcile_batch works on: both tables, the decisions taken, the stats.
Work(bts, txs, dec) ==
    [bt |-> bts, tx |-> txs, dec |-> dec, matched |-> 0, pending |-> 0]

\* _create_transaction_from_bank: insert the entry, point the movement at it.
CreateTransactionFromBank(w, id) ==
    LET new == NextId(w.tx)
    IN [w EXCEPT !.tx = w.tx @@ (new :> TransactionFromBank(w.bt[id])),
                 !.bt = [w.bt EXCEPT ![id].matched_transaction_id = new]]

\* Stage 3 of reconcile_batch: the manual-source best match, or the
\* bank-source one when there is none of at least the threshold.
ThirdStageMatch(man, bank) ==
    IF man[1] = NoId \/ man[2] < AUTO_MATCH_THRESHOLD THEN bank ELSE man

\* The writes of one iteration of reconcile_batch, once its stage is known;
\* `note` is what is recorded of the decision.
Apply(w, id, stage, rule, t, note) ==
    IF stage = 1
    THEN LET c == CreateTransactionFromBank(w, id)
         IN [c EXCEPT !.bt = [c.bt EXCEPT ![id].status = "riconciliato",
                                          ![id].matched_by = "regola",
                                          ![id].matched_rule_id = rule],
                      !.dec = (id :> note) @@ w.dec,
                      !.matched = w.matched + 1]
    ELSE IF stage = 2 \/ stage = 3
    THEN LET l == LinkTransaction(w.bt, w.tx, id, t, "auto")
         IN [w EXCEPT !.bt = l.bt, !.tx = l.tx,
                      !.dec = (id :> note) @@ w.dec,
                      !.matched = w.matched + 1]
    ELSE [w EXCEPT !.dec = (id :> note) @@ w.dec,
                   !.pending = w.pending + 1]

\* One iteration of reconcile_batch for a pending movement, given the result
\* of apply_rules and the scores of the candidates of each source.
Decide(w, id, rules, rule, sdi_sc, man_sc, bank_sc) ==
    LET rule_auto == rule # NoId /\ rules[rule].action_auto_create
        sdi == BestOf(sdi_sc)
        other == ThirdStageMatch(BestOf(man_sc), BestOf(bank_sc))
        stage == StageOf(rule_auto, sdi[2], other[2])
        t == IF stage = 1 THEN NextId(w.tx)
             ELSE IF stage = 2 THEN sdi[1]
             ELSE IF stage = 3 THEN other[1]
             ELSE NoId
        existed == t \in DOMAIN w.tx
    IN Apply(w, id, stage, rule, t,
             [stage |-> stage, rule |-> rule, rule_auto |-> rule_auto,
              tx |-> t, tx_existed |-> existed,
              tx_source |-> IF existed THEN w.tx[t].source ELSE "none",
              sdi_best |-> MaxScore(sdi_sc),
              man_best |-> MaxScore(man_sc),
              bank_best |-> MaxScore(bank_sc),
              score |-> IF stage = 2 THEN sdi[2]
                        ELSE IF stage = 3 THEN other[2] ELSE 0,
              pool_best |-> IF stage = 2 THEN MaxScore(sdi_sc)
                            ELSE IF stage = 3 /\ w.tx[t].source = "manuale"
                            THEN MaxScore(man_sc)
                            ELSE IF stage = 3 THEN MaxScore(bank_sc)
                            ELSE 0])

\* One iteration of the loop of reconcile_batch.
ReconcileOne(w, id, rules, ord) ==
    IF w.bt[id].status # "non_riconciliato" THEN w
    ELSE Decide(w, id, rules, apply_rules(rules, ord, RuleData(w.bt[id]), "banca"),
                Scores(w.bt, w.tx, id, "sdi"),
                Scores(w.bt, w.tx, id, "manuale"),
                Scores(w.bt, w.tx, id, "banca"))

\* reconcile_batch over the movements `ids`, in row order.
RECURSIVE ReconcileSeq(_, _, _, _)
ReconcileSeq(w, ids, rules, ord) ==
    IF ids = <<>> THEN w
    ELSE ReconcileSeq(ReconcileOne(w, Head(ids), rules, ord), Tail(ids), rules, ord)

reconcile_batch(w, ids, rules, ord) == ReconcileSeq(w, SortedIds(ids), rules, ord)

----------------------------------------------------------------------------
(* Proposals (reconciliation.py get_match_proposals, banca.py sospesi) *)

\* The reasons _compute_score appends, by dimension; <<>> when the dimension
\* adds nothing.  The percentages and day counts of the texts are left out.
AmountReason(bt_amount, tx_amount) ==
    IF tx_amount > 0
    THEN IF bt_amount = tx_amount THEN <<"importo_identico">>
         ELSE IF Abs(bt_amount - tx_amount) * 100 <= 2 * tx_amount
         THEN <<"importo_simile">>
         ELSE IF Abs(bt_amount - tx_amount) * 100 <= 10 * tx_amount
         THEN <<"importo_vicino">>
         ELSE <<>>
    ELSE <<>>

NameReason(points) ==
    IF points = 30 THEN <<"nome_simile">>
    ELSE IF points = 15 THEN <<"nome_parziale">>
    ELSE <<>>

DateReason(points) ==
    IF points = 20 THEN <<"data_vicina">>
    ELSE IF points = 10 THEN <<"data_compatibile">>
    ELSE <<>>

\* The reasons list _compute_score returns with the score.
ComputeReasons(bt, tx) ==
    AmountReason(bt.amount, tx.amount)
    \o NameReason(NameScore(bt.counterpart_name, tx.contact_name))
    \o DateReason(DateScore(bt.operation_date, tx.date))

\* One loop of get_match_proposals: the candidates of a source, in row order,
\* that score above 20.
ProposalsOf(bts, txs, id, source) ==
    LET sc == Scores(bts, txs, id, source)
        ids == SortedIds({t \in DOMAIN sc : sc[t] > 20})
    IN [k \in 1..Len(ids) |->
          [transaction |-> ids[k], score |-> sc[ids[k]],
           reasons |-> ComputeReasons(bts[id], txs[ids[k]])]]

\* A sort that puts the lowest score first.
RECURSIVE SortByScoreAscending(_)
SortByScoreAscending(ps) ==
    IF ps = <<>> THEN <<>>
    ELSE LET k == CHOOSE i \in 1..Len(ps) :
                    /\ \A j \in 1..Len(ps) : ps[j].score >= ps[i].score
                    /\ \A j \in 1..(i - 1) : ps[j].score > ps[i].score
         IN <<ps[k]>> \o SortByScoreAscending(SubSeq(ps, 1, k - 1)
                                              \o SubSeq(ps, k + 1, Len(ps)))

\* list.sort(key=score, reverse=True): stable, highest score first.
RECURSIVE SortByScore(_)
SortByScore(ps) ==
    IF ps = <<>> THEN <<>>
    ELSE LET k == CHOOSE i \in 1..Len(ps) :
                    /\ \A j \in 1..Len(ps) : ps[j].score <= ps[i].score
                    /\ \A j \in 1..(i - 1) : ps[j].score < ps[i].score
         IN <<ps[k]>> \o SortByScore(SubSeq(ps, 1, k - 1)
                                     \o SubSeq(ps, k + 1, Len(ps)))

\* proposals[:5]
FirstFive(ps) == SubSeq(ps, 1, IF Len(ps) < 5 THEN Len(ps) ELSE 5)

\* get_match_proposals
get_match_proposals(bts, txs, id) ==
    FirstFive(SortByScore(ProposalsOf(bts, txs, id, "sdi")
                          \o ProposalsOf(bts, txs, id, "manuale")
                          \o ProposalsOf(bts, txs, id, "banca")))

\* sospesi: the page of the pending movements, each with its proposals.
Sospesi ==
    /\ flashed' =
          [category |-> "sospesi",
           items |-> [id \in {i \in DOMAIN bank_transactions :
                                bank_transactions[i].status = "non_riconciliato"}
                      |-> get_match_proposals(bank_transactions, transactions, id)]]
    /\ UNCHANGED <<bank_transactions, transactions, bank_balances, auto_rules,
                   ignore_reasons, decisions, manual_ops, last_import, sessions>>

----------------------------------------------------------------------------
(* The upload handler (banca.py upload) *)

\* A new row of bank_transactions, columns at their defaults.
BankRow(d, batch_id) ==
    [operation_date |-> d.operation_date, value_date |-> d.value_date,
     amount |-> d.amount, direction |-> d.direction,
     causale_abi |-> d.causale_abi, causale_description |-> d.causale_description,
     counterpart_name |-> d.counterpart_name, remittance_info |-> d.remittance_info,
     reference_code |-> d.reference_code, dedup_hash |-> d.dedup_hash,
     status |-> "non_riconciliato", matched_transaction_id |-> NoId,
     matched_by |-> "none", matched_rule_id |-> NoId, ignore_reason_id |-> NoId,
     import_batch_id |-> batch_id]

\* uuid4()[:8]: an identifier no stored batch carries.
FreshBatchId(bts) == MaxOr0({bts[i].import_batch_id : i \in DOMAIN bts}) + 1

Hashes(bts) == {bts[i].dedup_hash : i \in DOMAIN bts}

\* A dedup loop without its existence check.
ExistingNever(bts, added, hash) == FALSE

\* The in-process existence check of the dedup loop: a stored row has this
\* hash, or a row this session added before (autoflush makes it visible).
Existing(bts, added, hash) ==
    \/ hash \in Hashes(bts)
    \/ \E k \in 1..Len(added) : added[k].dedup_hash = hash

\* The dedup loop over the parsed movements: the rows to add, the duplicates.
RECURSIVE DedupLoop(_, _, _)
DedupLoop(bts, acc, datas) ==
    IF datas = <<>> THEN acc
    ELSE IF Existing(bts, acc.added, Head(datas).dedup_hash)
    THEN DedupLoop(bts, [acc EXCEPT !.duplicates = acc.duplicates + 1], Tail(datas))
    ELSE DedupLoop(bts, [acc EXCEPT !.added = Append(acc.added, Head(datas))],
                   Tail(datas))

ExistingBalance(bals, added, b) ==
    \E r \in {bals[i] : i \in 1..Len(bals)} \cup {added[i] : i \in 1..Len(added)} :
        /\ r.date = b.date
        /\ r.balance_type = b.type
        /\ r.source = "cbi"

\* The loop over the parsed balances: the rows to add.
RECURSIVE BalanceLoop(_, _, _)
BalanceLoop(bals, added, parsed) ==
    IF parsed = <<>> THEN added
    ELSE LET b == Head(parsed)
         IN IF ExistingBalance(bals, added, b)
            THEN BalanceLoop(bals, added, Tail(parsed))
            ELSE BalanceLoop(bals,
                             Append(added, [date |-> b.date, balance |-> b.balance,
                                            balance_type |-> b.type, source |-> "cbi"]),
                             Tail(parsed))

\* Lines 116-162 of upload: the objects the session has added.
Pending(bts, bals, f) ==
    LET d == DedupLoop(bts, [added |-> <<>>, duplicates |-> 0], f.transactions)
    IN [added |-> d.added, duplicates |-> d.duplicates,
        balances |-> BalanceLoop(bals, <<>>, f.balances)]

\* A schema without the UNIQUE constraint.
UniqueNotEnforced(bts, added) == FALSE

\* The UNIQUE constraint on bank_transactions.dedup_hash: would the INSERT of
\* these rows be refused?
UniqueViolation(bts, added) ==
    \/ \E k \in 1..Len(added) : added[k].dedup_hash \in Hashes(bts)
    \/ \E k, l \in 1..Len(added) : k # l /\ added[k].dedup_hash = added[l].dedup_hash

\* The INSERTs of the flush: rowids in the order the rows were added.
RECURSIVE InsertRows(_, _, _)
InsertRows(bts, added, batch_id) ==
    IF added = <<>> THEN bts
    ELSE InsertRows(bts @@ (NextId(bts) :> BankRow(Head(added), batch_id)),
                    Tail(added), batch_id)

\* The query for the new movements of the batch.
NewTransactions(bts, batch_id) ==
    {i \in DOMAIN bts : /\ bts[i].import_batch_id = batch_id
                        /\ bts[i].status = "non_riconciliato"}

\* The tables a database transaction reads and writes.
Tables(bts, txs, bals, dec) == [bt |-> bts, tx |-> txs, bal |-> bals, dec |-> dec]

Committed == Tables(bank_transactions, transactions, bank_balances, decisions)

\* An except block that would keep what the session held.
RollbackKeepsWork(committed, held) == held

\* db.session.rollback(): the committed tables, whatever the session held.
Rollback(committed, held) == committed

Flash(category, imported, duplicates, matched, pending) ==
    [category |-> category, imported |-> imported, duplicates |-> duplicates,
     matched |-> matched, pending |-> pending]

\* The points of upload where the storage may fail.
FailurePoints == {"none", "insert", "flush", "reconcile", "commit"}

\* Line 164 of upload on the tables `c`: the pending objects `p` are flushed.
Flushed(c, p) ==
    Tables(InsertRows(c.bt, p.added, FreshBatchId(c.bt)), c.tx,
           c.bal \o p.balances, c.dec)

\* Lines 167-172: the new movements of the batch are reconciled.
Reconciled(f, batch_id, rules, ord) ==
    reconcile_batch(Work(f.bt, f.tx, f.dec), NewTransactions(f.bt, batch_id),
                    rules, ord)

\* What the session holds when it reaches `point`, `f` being the tables after
\* the flush and `w` the work of reconcile_batch. A failure at "insert" is one
\* of an autoflush of the dedup loop (line 123), after the first new row was
\* written.
HeldAt(point, c, p, f, w) ==
    IF point = "insert"
    THEN [tables |-> Tables(InsertRows(c.bt, SubSeq(p.added, 1, 1), FreshBatchId(c.bt)),
                            c.tx, c.bal, c.dec),
          matched |-> 0, pending |-> 0]
    ELSE IF point = "flush"
    THEN [tables |-> f, matched |-> 0, pending |-> 0]
    ELSE [tables |-> Tables(w.bt, w.tx, f.bal, w.dec),
          matched |-> w.matched, pending |-> w.pending]

\* Lines 164-173 of upload on the tables `c`: flush the pending objects `p`,
\* reconcile the new movements; what the session holds when it reaches `point`.
FlushAndReconcile(c, p, rules, ord, point) ==
    HeldAt(point, c, p, Flushed(c, p),
           Reconciled(Flushed(c, p), FreshBatchId(c.bt), rules, ord))

SetTables(t) ==
    /\ bank_transactions' = t.bt
    /\ transactions' = t.tx
    /\ bank_balances' = t.bal
    /\ decisions' = t.dec

\* The try block of upload runs to its commit: nothing raised, and the flush
\* met no row with a hash of the batch.
Succeeds(p, fail) == fail = "none" /\ ~UniqueViolation(bank_transactions, p.added)

\* Lines 173-202 of upload: the batch `h` the session holds is committed and
\* reported, or a failure rolls it back.
Conclude(p, fail, h) ==
    IF Succeeds(p, fail)
    THEN /\ MaxOr0(DOMAIN h.tables.tx) <= MaxTx
         /\ SetTables(h.tables)
         /\ flashed' = Flash("success", Len(p.added), p.duplicates,
                             h.matched, h.pending)
    ELSE /\ SetTables(Rollback(Committed, h.tables))
         /\ flashed' = Flash("danger", 0, 0, 0, 0)

\* The outcome of lines 164-204 of upload for the pending objects `p`.
FinishUpload(p, ord, fail) ==
    Conclude(p, fail, FlushAndReconcile(Committed, p, auto_rules, ord, fail))

\* History of the imports: the file of the last committed import and whether
\* the import before it, with no write in between, was of the same file. It
\* is forgotten at any other write.
NoImport == [file |-> [transactions |-> <<>>, balances |-> <<>>], run |-> "none"]

Imported(f) ==
    [file |-> f,
     run |-> IF last_import.run # "none" /\ last_import.file = f
             THEN "again" ELSE "first"]

\* upload, run alone from the request to the response.
Upload(f, ord, fail) ==
    /\ UNCHANGED <<auto_rules, ignore_reasons, manual_ops, sessions>>
    /\ IF f.transactions = <<>> /\ f.balances = <<>>
       THEN /\ fail = "none"
            /\ flashed' = Flash("warning", 0, 0, 0, 0)
            /\ UNCHANGED <<bank_transactions, transactions, bank_balances,
                           decisions, last_import>>
       ELSE LET p == Pending(bank_transactions, bank_balances, f)
            IN /\ FinishUpload(p, ord, fail)
               /\ last_import' = IF Succeeds(p, fail)
                                 THEN Imported(f) ELSE NoImport

----------------------------------------------------------------------------
(* The manual routes (banca.py, movimenti.py) *)

\* A manual route call, counted against MaxManual; it ends any run of imports.
ManualCall ==
    /\ manual_ops < MaxManual
    /\ manual_ops' = manual_ops + 1
    /\ last_import' = NoImport

\* riconcilia: force the link of movement `id` to ledger entry `t`.
Riconcilia(id, t) ==
    /\ ManualCall
    /\ id \in DOMAIN bank_transactions
    /\ t \in DOMAIN transactions
    /\ LET l == LinkTransaction(bank_transactions, transactions, id, t, "manuale")
       IN /\ bank_transactions' = l.bt
          /\ transactions' = l.tx
    /\ flashed' = Flash("success", 0, 0, 0, 0)
    /\ UNCHANGED <<bank_balances, auto_rules, ignore_reasons, decisions, sessions>>

\* ignora: mark the movement ignored, with an optional reason.
Ignora(id, reason) ==
    /\ ManualCall
    /\ id \in DOMAIN bank_transactions
    /\ reason \in ignore_reasons \cup {NoId}
    /\ bank_transactions' = [bank_transactions EXCEPT
                                ![id].status = "ignorato",
                                ![id].ignore_reason_id = reason]
    /\ flashed' = Flash("info", 0, 0, 0, 0)
    /\ UNCHANGED <<transactions, bank_balances, auto_rules, ignore_reasons,
                   decisions, sessions>>

\* A restore that leaves the reason in place.
RipristinaKeepsReason(id) ==
    /\ ManualCall
    /\ id \in DOMAIN bank_transactions
    /\ bank_transactions' = [bank_transactions EXCEPT
                                ![id].status = "non_riconciliato"]
    /\ flashed' = Flash("info", 0, 0, 0, 0)
    /\ UNCHANGED <<transactions, bank_balances, auto_rules, ignore_reasons,
                   decisions, sessions>>

\* ripristina: back to pending, reason cleared.
Ripristina(id) ==
    /\ ManualCall
    /\ id \in DOMAIN bank_transactions
    /\ bank_transactions' = [bank_transactions EXCEPT
                                ![id].status = "non_riconciliato",
                                ![id].ignore_reason_id = NoId]
    /\ flashed' = Flash("info", 0, 0, 0, 0)
    /\ UNCHANGED <<transactions, bank_balances, auto_rules, ignore_reasons,
                   decisions, sessions>>

\* elimina_motivo_ignora: detach the reason from its movements, delete it.
EliminaMotivoIgnora(r) ==
    /\ ManualCall
    /\ r \in ignore_reasons
    /\ bank_transactions' =
          [i \in DOMAIN bank_transactions |->
              IF bank_transactions[i].ignore_reason_id = r
              THEN [bank_transactions[i] EXCEPT !.ignore_reason_id = NoId]
              ELSE bank_transactions[i]]
    /\ ignore_reasons' = ignore_reasons \ {r}
    /\ flashed' = Flash("success", 0, 0, 0, 0)
    /\ UNCHANGED <<transactions, bank_balances, auto_rules, decisions, sessions>>

\* create_transaction_from_bank_manual
CreateTransactionFromBankManual(bts, txs, id) ==
    LET new == NextId(txs)
    IN [bt |-> [bts EXCEPT ![id].status = "riconciliato",
                           ![id].matched_transaction_id = new,
                           ![id].matched_by = "manuale"],
        tx |-> txs @@ (new :> TransactionFromBank(bts[id]))]

\* crea_movimento
CreaMovimento(id) ==
    /\ ManualCall
    /\ id \in DOMAIN bank_transactions
    /\ NextId(transactions) <= MaxTx
    /\ LET c == CreateTransactionFromBankManual(bank_transactions, transactions, id)
       IN /\ bank_transactions' = c.bt
          /\ transactions' = c.tx
    /\ flashed' = Flash("success", 0, 0, 0, 0)
    /\ UNCHANGED <<bank_balances, auto_rules, ignore_reasons, decisions, sessions>>

\* movimenti.delete: the ORM detaches the movements that point at the entry
\* (their foreign key becomes NULL), then deletes the row.
DeleteTransaction(t) ==
    /\ ManualCall
    /\ t \in DOMAIN transactions
    /\ transactions' = [u \in DOMAIN transactions \ {t} |-> transactions[u]]
    /\ bank_transactions' =
          [i \in DOMAIN bank_transactions |->
              IF bank_transactions[i].matched_transaction_id = t
              THEN [bank_transactions[i] EXCEPT !.matched_transaction_id = NoId]
              ELSE bank_transactions[i]]
    /\ flashed' = Flash("success", 0, 0, 0, 0)
    /\ UNCHANGED <<bank_balances, auto_rules, ignore_reasons, decisions, sessions>>

\* create_transaction_from_rule: synthesize the missing ledger entry of an
\* unreconciled movement and link it as the rule's.
CreateTransactionFromRule(w, id, rule) ==
    LET c == CreateTransactionFromBank(w, id)
    IN [c EXCEPT !.bt = [c.bt EXCEPT ![id].status = "riconciliato",
                                     ![id].matched_by = "regola",
                                     ![id].matched_rule_id = rule]]

\* One iteration of the loop of regole_riapplica.
RiapplicaOne(w, id, rules, ord, rule_ids) ==
    LET bt == w.bt[id]
        rule == apply_specific_rules(rules, ord, RuleData(bt), "banca", rule_ids)
    IN IF bt.status = "riconciliato" /\ bt.matched_transaction_id # NoId THEN w
       ELSE IF rule = NoId THEN w
       ELSE IF rules[rule].action_auto_create /\ bt.status # "riconciliato"
       THEN CreateTransactionFromRule(w, id, rule)
       ELSE [w EXCEPT !.bt = [w.bt EXCEPT ![id].matched_rule_id = rule]]

RECURSIVE RiapplicaSeq(_, _, _, _, _)
RiapplicaSeq(w, ids, rules, ord, rule_ids) ==
    IF ids = <<>> THEN w
    ELSE RiapplicaSeq(RiapplicaOne(w, Head(ids), rules, ord, rule_ids),
                      Tail(ids), rules, ord, rule_ids)

\* regole_riapplica
RegoleRiapplica(rule_ids, scope, ord) ==
    /\ ManualCall
    /\ rule_ids # {}
    /\ LET ids == IF scope = "tutti" THEN DOMAIN bank_transactions
                  ELSE {i \in DOMAIN bank_transactions :
                          bank_transactions[i].status = "non_riconciliato"}
           w == RiapplicaSeq(Work(bank_transactions, transactions, decisions),
                             SortedIds(ids), auto_rules, ord, rule_ids)
       IN /\ MaxOr0(DOMAIN w.tx) <= MaxTx
          /\ bank_transactions' = w.bt
          /\ transactions' = w.tx
    /\ flashed' = Flash("success", 0, 0, 0, 0)
    /\ UNCHANGED <<bank_balances, auto_rules, ignore_reasons, decisions, sessions>>

----------------------------------------------------------------------------
(* The sequential specification: one handler at a time *)

Workers == {1, 2}

\* A worker between requests: no transaction open; `runs` counts its requests.
Session(pc, kind, runs, rivals, data, outcome, claimed) ==
    [pc |-> pc, kind |-> kind, runs |-> runs, rivals |-> rivals, data |-> data,
     outcome |-> outcome, claimed |-> claimed]

IdleSession(runs) == Session("idle", "none", runs, {}, <<>>, "none", {})

Init ==
    /\ bank_transactions = <<>>
    /\ transactions = InitialLedger
    /\ bank_balances = <<>>
    /\ auto_rules = InitialRules
    /\ ignore_reasons = IgnoreReasonIds
    /\ flashed = Flash("none", 0, 0, 0, 0)
    /\ decisions = <<>>
    /\ manual_ops = 0
    /\ last_import = NoImport
    /\ sessions = [w \in Workers |-> IdleSession(0)]

Next ==
    \/ \E f \in Files, ord \in RuleOrders(auto_rules), fail \in FailurePoints :
          Upload(f, ord, fail)
    \/ \E id \in DOMAIN bank_transactions, t \in DOMAIN transactions :
          Riconcilia(id, t)
    \/ \E id \in DOMAIN bank_transactions, r \in ignore_reasons \cup {NoId} :
          Ignora(id, r)
    \/ \E id \in DOMAIN bank_transactions : Ripristina(id)
    \/ \E r \in ignore_reasons : EliminaMotivoIgnora(r)
    \/ \E id \in DOMAIN bank_transactions : CreaMovimento(id)
    \/ \E t \in DOMAIN transactions : DeleteTransaction(t)
    \/ \E rule_ids \in RuleIdChoices, scope \in {"tutti", "non_riconciliati"},
          ord \in RuleOrders(auto_rules) :
          RegoleRiapplica(rule_ids, scope, ord)

Spec == Init /\ [][Next]_vars

----------------------------------------------------------------------------
(* The concurrent specification: upload and riconcilia of two workers as       *)
(* interleaved database transactions.  A request reads when it begins; its     *)
(* writes reach the tables when it commits.  The database is SQLite            *)
(* (config.py): from its first INSERT or UPDATE a transaction holds the write  *)
(* lock, so the flush, the reconciliation and the commit of one request run    *)
(* with no other writer in between.                                            *)

Open(w) == sessions[w].pc = "open"

\* Worker w opens a transaction; the transactions open now overlap with it.
OpenSession(w, kind, data) ==
    LET others == {v \in Workers \ {w} : Open(v)}
    IN sessions' = [v \in Workers |->
          IF v = w
          THEN Session("open", kind, sessions[w].runs + 1, others, data, "none", {})
          ELSE IF v \in others
          THEN [sessions[v] EXCEPT !.rivals = sessions[v].rivals \cup {w}]
          ELSE sessions[v]]

CloseSession(w, outcome, claimed) ==
    sessions' = [sessions EXCEPT ![w].pc = "done", ![w].outcome = outcome,
                                 ![w].claimed = claimed]

\* upload up to line 162: parse, dedup loop, balance loop; nothing is flushed.
BeginUpload(w, f) ==
    /\ sessions[w].pc = "idle"
    /\ sessions[w].runs < MaxRuns
    /\ f.transactions # <<>> \/ f.balances # <<>>
    /\ OpenSession(w, "upload", Pending(bank_transactions, bank_balances, f))
    /\ UNCHANGED <<bank_transactions, transactions, bank_balances, auto_rules,
                   ignore_reasons, flashed, decisions, manual_ops, last_import>>

\* The links <<movement, ledger entry>> the matcher made for a batch.
LinkedByBatch(before, after) ==
    {<<i, after[i].matched_transaction_id>> :
        i \in {x \in DOMAIN after \ DOMAIN before : after[x].matched_by = "auto"}}

\* upload from line 164: flush, reconcile, commit (or roll back), report.
CommitUpload(w, ord) ==
    /\ Open(w)
    /\ sessions[w].kind = "upload"
    /\ FinishUpload(sessions[w].data, ord, "none")
    /\ IF UniqueViolation(bank_transactions, sessions[w].data.added)
       THEN CloseSession(w, "rolled_back", {})
       ELSE CloseSession(w, "committed",
                         LinkedByBatch(bank_transactions, bank_transactions'))
    /\ UNCHANGED <<auto_rules, ignore_reasons, manual_ops, last_import>>

\* riconcilia up to line 418: both rows are loaded.
BeginRiconcilia(w, id, t) ==
    /\ sessions[w].pc = "idle"
    /\ sessions[w].runs < MaxRuns
    /\ id \in DOMAIN bank_transactions
    /\ t \in DOMAIN transactions
    /\ OpenSession(w, "riconcilia",
                   [id |-> id, t |-> t, bt |-> bank_transactions[id],
                    tx |-> transactions[t]])
    /\ UNCHANGED <<bank_transactions, transactions, bank_balances, auto_rules,
                   ignore_reasons, flashed, decisions, manual_ops, last_import>>

\* riconcilia from line 420: the UPDATEs of the loaded rows, and the commit.
\* No constraint of the schema involves matched_transaction_id.
CommitRiconcilia(w) ==
    /\ Open(w)
    /\ sessions[w].kind = "riconcilia"
    /\ LET d == sessions[w].data
       IN /\ bank_transactions' = [bank_transactions EXCEPT
                                      ![d.id].status = "riconciliato",
                                      ![d.id].matched_transaction_id = d.t,
                                      ![d.id].matched_by = "manuale"]
          /\ transactions' =
                IF d.tx.source = "sdi" /\ d.tx.payment_status \in {"da_pagare", "parziale"}
                THEN [transactions EXCEPT ![d.t].payment_status = "pagato",
                                          ![d.t].payment_date = d.bt.operation_date]
                ELSE transactions
          /\ CloseSession(w, "committed", {<<d.id, d.t>>})
    /\ flashed' = Flash("success", 0, 0, 0, 0)
    /\ UNCHANGED <<bank_balances, auto_rules, ignore_reasons, decisions,
                   manual_ops, last_import>>

\* The response is sent; the worker is free for its next request.
EndRequest(w) ==
    /\ sessions[w].pc = "done"
    /\ sessions' = [sessions EXCEPT ![w] = IdleSession(sessions[w].runs)]
    /\ UNCHANGED <<bank_transactions, transactions, bank_balances, auto_rules,
                   ignore_reasons, flashed, decisions, manual_ops, last_import>>

NextConc ==
    \/ \E w \in Workers, f \in Files : BeginUpload(w, f)
    \/ \E w \in Workers, ord \in RuleOrders(auto_rules) : CommitUpload(w, ord)
    \/ \E w \in Workers, id \in DOMAIN bank_transactions, t \in DOMAIN transactions :
          BeginRiconcilia(w, id, t)
    \/ \E w \in Workers : CommitRiconcilia(w)
    \/ \E w \in Workers : EndRequest(w)

SpecConc == Init /\ [][NextConc]_vars

----------------------------------------------------------------------------
(* The matcher specification: imports into ledgers of every kind.  The ledger  *)
(* is filled by the other parts of the application (invoices, manual entries,  *)
(* entries created from movements); an older movement is stored, pending or    *)
(* confirmed by hand against one of the entries.                               *)

mN == TxData(105, 105, 1000, DirD, "260", <<>>, <<>>, "r2")  \* no counterpart name
mB == TxData(90, 90, 500, DirD, "260", <<>>, <<>>, "r0")     \* the older movement

\* Ledger rows around a debit of 1000 on day 105 by counterpart <<1, 2>>.
MatchRows ==
    { LedgerRow("uscita", "sdi", 1000, 100, <<1, 2>>, "da_pagare", 0),
      LedgerRow("uscita", "sdi", 1000, 92, <<1, 2>>, "da_pagare", 0),
      LedgerRow("uscita", "sdi", 1000, 100, <<>>, "da_pagare", 0),
      LedgerRow("uscita", "sdi", 1000, 100, <<1, 2>>, "pagato", 90),
      LedgerRow("uscita", "sdi", 1000, 70, <<1, 2>>, "da_pagare", 0),
      LedgerRow("entrata", "sdi", 1000, 100, <<1, 2>>, "da_pagare", 0),
      LedgerRow("uscita", "sdi", 950, 100, <<1, 2>>, "parziale", 0),
      LedgerRow("uscita", "manuale", 1000, 85, <<1, 2>>, "pagato", 85),
      LedgerRow("uscita", "manuale", 1000, 100, <<>>, "da_pagare", 0),
      LedgerRow("uscita", "banca", 1000, 100, <<1, 2>>, "pagato", 100),
      LedgerRow("uscita", "banca", 1000, 85, <<1, 2>>, "pagato", 85) }

MatchLedgerIds == {1, 2}

MatchFiles ==
    { [transactions |-> <<mA, mN>>, balances |-> <<>>],
      [transactions |-> <<mC>>, balances |-> <<>>] }

\* The older movement as its import stored it (no rule and no candidate met it).
StoredPending(d) == (1 :> BankRow(d, 1))

\* The tables once the older movement was confirmed by hand against entry k
\* (riconcilia), or left pending when k is NoId.
ConfirmedByHand(txs, d, k) ==
    IF k = NoId THEN [bt |-> StoredPending(d), tx |-> txs]
    ELSE LinkTransaction(StoredPending(d), txs, 1, k, "manuale")

InitMatch ==
    /\ \E txs \in [MatchLedgerIds -> MatchRows], k \in MatchLedgerIds \cup {NoId} :
          /\ bank_transactions = ConfirmedByHand(txs, mB, k).bt
          /\ transactions = ConfirmedByHand(txs, mB, k).tx
    /\ bank_balances = <<>>
    /\ auto_rules = InitialRules
    /\ ignore_reasons = IgnoreReasonIds
    /\ flashed = Flash("none", 0, 0, 0, 0)
    /\ decisions = <<>>
    /\ manual_ops = 0
    /\ last_import = NoImport
    /\ sessions = [w \in Workers |-> IdleSession(0)]

NextMatch ==
    \/ \E f \in MatchFiles, ord \in RuleOrders(auto_rules), fail \in FailurePoints :
          Upload(f, ord, fail)
    \/ Sospesi

SpecMatch == InitMatch /\ [][NextMatch]_vars

----------------------------------------------------------------------------
(* The scoring specification: _compute_score on a movement of amount 1000 on   *)
(* day 105 and two ledger entries whose amounts and dates lie on both sides of *)
(* every band of the score.                                                    *)

ScoreAmounts == {0, 909, 910, 980, 981, 1000, 1020, 1021, 1111, 1112}
ScoreDates == {89, 90, 97, 98, 105, 112, 120}
ScoreContacts == {<<>>, <<11, 12>>, <<1, 3>>}

ScoreRow(amount, date, contact) ==
    LedgerRow("uscita", "manuale", amount, date, contact, "da_pagare", 0)

InitScore ==
    /\ bank_transactions = StoredPending(mA)
    /\ \E a1, a2 \in ScoreAmounts, d1, d2 \in ScoreDates, c \in ScoreContacts :
          transactions = <<ScoreRow(a1, d1, c), ScoreRow(a2, d2, c)>>
    /\ bank_balances = <<>>
    /\ auto_rules = InitialRules
    /\ ignore_reasons = IgnoreReasonIds
    /\ flashed = Flash("none", 0, 0, 0, 0)
    /\ decisions = <<>>
    /\ manual_ops = 0
    /\ last_import = NoImport
    /\ sessions = [w \in Workers |-> IdleSession(0)]

\* _compute_score of movement id against every ledger entry, by dimension.
ScoreCandidates(id) ==
    /\ flashed.category = "none"
    /\ flashed' =
          [category |-> "scores", movement |-> id,
           of |-> [t \in DOMAIN transactions |->
                     [amount |-> AmountScore(bank_transactions[id].amount,
                                             transactions[t].amount),
                      name |-> NameScore(bank_transactions[id].counterpart_name,
                                         transactions[t].contact_name),
                      date |-> DateScore(bank_transactions[id].operation_date,
                                         transactions[t].date),
                      total |-> ComputeScore(bank_transactions[id], transactions[t])]]]
    /\ UNCHANGED <<bank_transactions, transactions, bank_balances, auto_rules,
                   ignore_reasons, decisions, manual_ops, last_import, sessions>>

NextScore == \E id \in DOMAIN bank_transactions : ScoreCandidates(id)

SpecScore == InitScore /\ [][NextScore]_vars

----------------------------------------------------------------------------
(* The proposals specification: the page of the pending movements over         *)
(* ledgers of seven entries.  The debit of 1000 is stored and pending (the     *)
(* entries came into the ledger after its import); the older movement is       *)
(* pending or confirmed by hand against an entry.                              *)

ProposalRows ==
    { LedgerRow("uscita", "sdi", 1000, 100, <<1, 2>>, "da_pagare", 0),
      LedgerRow("uscita", "manuale", 1000, 85, <<1, 2>>, "pagato", 85),
      LedgerRow("uscita", "banca", 1000, 120, <<>>, "pagato", 120),
      LedgerRow("uscita", "sdi", 500, 100, <<>>, "da_pagare", 0) }

ProposalLedgerIds == 1..7

InitProposals ==
    /\ \E txs \in [ProposalLedgerIds -> ProposalRows], k \in {NoId, 1} :
          /\ bank_transactions =
                InsertRows(ConfirmedByHand(txs, mB, k).bt, <<mA>>, 2)
          /\ transactions = ConfirmedByHand(txs, mB, k).tx
    /\ bank_balances = <<>>
    /\ auto_rules = InitialRules
    /\ ignore_reasons = IgnoreReasonIds
    /\ flashed = Flash("none", 0, 0, 0, 0)
    /\ decisions = <<>>
    /\ manual_ops = 0
    /\ last_import = NoImport
    /\ sessions = [w \in Workers |-> IdleSession(0)]

NextProposals == Sospesi

SpecProposals == InitProposals /\ [][NextProposals]_vars

----------------------------------------------------------------------------
(* The manual specification: the override routes on a stored movement that the *)
(* rule "incassi" meets (the rule was added after its import), pending or      *)
(* confirmed by hand, over ledgers of two entries.                             *)

mD == TxData(90, 90, 120, DirD, "260", <<>>, <<>>, "r0")

ManualRows ==
    { LedgerRow("uscita", "sdi", 120, 85, <<>>, "da_pagare", 0),
      LedgerRow("uscita", "sdi", 240, 85, <<>>, "parziale", 0),
      LedgerRow("uscita", "sdi", 120, 80, <<>>, "pagato", 80),
      LedgerRow("uscita", "manuale", 120, 85, <<>>, "da_pagare", 0),
      LedgerRow("uscita", "banca", 120, 85, <<>>, "pagato", 85) }

InitManual ==
    /\ \E txs \in [{1, 2} -> ManualRows], k \in {NoId, 1, 2} :
          /\ bank_transactions = ConfirmedByHand(txs, mD, k).bt
          /\ transactions = ConfirmedByHand(txs, mD, k).tx
    /\ bank_balances = <<>>
    /\ auto_rules = InitialRules
    /\ ignore_reasons = IgnoreReasonIds
    /\ flashed = Flash("none", 0, 0, 0, 0)
    /\ decisions = <<>>
    /\ manual_ops = 0
    /\ last_import = NoImport
    /\ sessions = [w \in Workers |-> IdleSession(0)]

NextManual ==
    \/ \E id \in DOMAIN bank_transactions, t \in DOMAIN transactions :
          Riconcilia(id, t)
    \/ \E id \in DOMAIN bank_transactions, r \in ignore_reasons \cup {NoId} :
          Ignora(id, r)
    \/ \E id \in DOMAIN bank_transactions : Ripristina(id)
    \/ \E rule_ids \in RuleIdChoices, scope \in {"tutti", "non_riconciliati"},
          ord \in RuleOrders(auto_rules) :
          RegoleRiapplica(rule_ids, scope, ord)

SpecManual == InitManual /\ [][NextManual]_vars

----------------------------------------------------------------------------
(* The rules specification: imports under every table of two rules drawn from  *)
(* rules that set each predicate alone, some together, in both priorities.     *)
(* Rule 1, the older row, is named "beta" and rule 2 "alfa".                   *)

mR == TxData(105, 105, 300, DirC, "480", <<3>>, <<7, 18>>, "r4")  \* with remittance text

\* The predicates and the action of a rule: scope, description, counterpart,
\* tax id, reason code, amount bounds, direction, auto-create.
RulePatterns ==
    { <<"banca", <<>>, <<>>, "", "", None, None, <<>>, FALSE>>,
      <<"tutti", <<>>, <<>>, "", "", None, None, <<>>, TRUE>>,
      <<"sdi", <<>>, <<>>, "", "", None, None, <<>>, TRUE>>,
      <<"banca", <<19>>, <<>>, "", "", None, None, <<>>, FALSE>>,
      <<"banca", <<17>>, <<>>, "", "", None, None, <<>>, TRUE>>,
      <<"banca", <<>>, <<11>>, "", "", None, None, <<>>, TRUE>>,
      <<"banca", <<>>, <<>>, "IT1", "", None, None, <<>>, TRUE>>,
      <<"banca", <<>>, <<>>, "", "480", None, None, <<>>, FALSE>>,
      <<"banca", <<>>, <<>>, "", "", 150, None, <<>>, TRUE>>,
      <<"banca", <<>>, <<>>, "", "", None, 150, <<>>, TRUE>>,
      <<"banca", <<>>, <<>>, "", "", 151, 300, <<>>, FALSE>>,
      <<"banca", <<>>, <<>>, "", "", None, None, <<13>>, TRUE>>,
      <<"banca", <<19>>, <<>>, "", "", None, None, <<13>>, TRUE>> }

RulePriorities == {10, 20}

RuleOf(name, priority, p, active) ==
    [Rule(name, priority, p[1], p[2], p[3], p[4], p[5], p[6], p[7], p[8], p[9])
        EXCEPT !.active = active]

RuleFiles == { [transactions |-> <<mA, mC, mR>>, balances |-> <<>>] }

InitRules ==
    /\ bank_transactions = <<>>
    /\ transactions = <<>>
    /\ bank_balances = <<>>
    /\ \E p1, p2 \in RulePatterns, q1, q2 \in RulePriorities, a \in BOOLEAN :
          auto_rules = (1 :> RuleOf("beta", q1, p1, TRUE))
                       @@ (2 :> RuleOf("alfa", q2, p2, a))
    /\ ignore_reasons = IgnoreReasonIds
    /\ flashed = Flash("none", 0, 0, 0, 0)
    /\ decisions = <<>>
    /\ manual_ops = 0
    /\ last_import = NoImport
    /\ sessions = [w \in Workers |-> IdleSession(0)]

NextRules ==
    \E f \in RuleFiles, ord \in RuleOrders(auto_rules), fail \in FailurePoints :
        Upload(f, ord, fail)

SpecRules == InitRules /\ [][NextRules]_vars

----------------------------------------------------------------------------
(* The balances specification: imports of statement files that overlap in      *)
(* their balance records, run alone or by two workers.  An import that adds a  *)
(* movement writes (autoflush) before it reads the first balance, so it holds  *)
(* the write lock for all its balance checks and runs as one step.  An import  *)
(* that adds no movement checks its first new balance before it writes         *)
(* anything: another import may commit between that check and its flush.       *)

BalanceFiles ==
    { [transactions |-> <<mA>>,
       balances |-> <<Balance(105, "apertura", 10), Balance(105, "chiusura", 20),
                      Balance(105, "chiusura", 20)>>],
      [transactions |-> <<mC>>,
       balances |-> <<Balance(105, "chiusura", 20), Balance(106, "chiusura", 30)>>],
      [transactions |-> <<>>, balances |-> <<Balance(105, "chiusura", 25)>>] }

\* upload up to its first INSERT, for a file that adds no movement: the
\* balance loop has checked the one new balance and nothing is flushed.
BeginUploadBalances(w, f) ==
    /\ Pending(bank_transactions, bank_balances, f).added = <<>>
    /\ Len(Pending(bank_transactions, bank_balances, f).balances) = 1
    /\ BeginUpload(w, f)

NextBalances ==
    \/ \E f \in BalanceFiles, ord \in RuleOrders(auto_rules), fail \in FailurePoints :
          Upload(f, ord, fail)
    \/ \E w \in Workers, f \in BalanceFiles : BeginUploadBalances(w, f)
    \/ \E w \in Workers, ord \in RuleOrders(auto_rules) : CommitUpload(w, ord)
    \/ \E w \in Workers : EndRequest(w)

SpecBalances == Init /\ [][NextBalances]_vars

----------------------------------------------------------------------------
(* The statement parser (cbi_parser.py).  A line is the record of the fields   *)
(* the parser slices out of it at fixed offsets; a field is the text found     *)
(* there.  Amounts are thousandths of a unit in a field and hundredths in a    *)
(* parsed movement or balance; a date is a day number, 0 standing for None.    *)

\* _parse_cbi_date: six digits DDMMYY of a calendar day, or None.
ParseCbiDate(date_str) ==
    CASE date_str = "100425" -> 100
      [] date_str = "110425" -> 101
      [] date_str = "150425" -> 105
      [] OTHER -> 0       \* "      ", "310425", "15O425", ...

\* float(cleaned) of _parse_italian_amount in thousandths, cleaned being the
\* text without its dots and with its comma as the decimal point; 0 where
\* float raises ValueError and the except branch returns 0.0.
FloatOf(text) ==
    CASE text = "000000001000,00" -> 1000000
      [] text = "000000000150,00" -> 150000
      [] text = "-00000000150,00" -> -150000
      [] text = "000000000000,00" -> 0
      [] text = "00000000000,004" -> 4
      [] OTHER -> 0     \* "IMPORTO", ...

\* _parse_italian_amount: the magnitude, 0.0 for empty or unreadable text.
ParseItalianAmount(text) == IF text = "" THEN 0 ELSE Abs(FloatOf(text))

\* round(amount, 2) in hundredths, amount >= 0 in thousandths and not
\* halfway between two hundredths.
Round2(amount) == (amount + 5) \div 10

\* What follows the date in the content of a YYY record.
YyyRemaining(text) ==
    CASE text = "15042025  ROSSI SRL   VIA ROMA 1" -> "ROSSI SRL   VIA ROMA 1"
      [] text = "15042025  VERDI SNC" -> "VERDI SNC"
      [] OTHER -> ""

\* The name segment of a YYY content after its date: the text before the
\* first run of three or more spaces; "" when nothing follows the date.
YyyName(text) ==
    CASE text = "15042025  ROSSI SRL   VIA ROMA 1" -> "ROSSI SRL"
      [] text = "15042025  VERDI SNC" -> "VERDI SNC"
      [] OTHER -> ""

YyyAddress(text) ==
    CASE text = "15042025  ROSSI SRL   VIA ROMA 1" -> "VIA ROMA 1"
      [] OTHER -> ""

\* _extract_counterpart_from_text on the free texts of the runs.
ExtractCounterpartFromText(text) ==
    CASE text = "VS.DISP. RIF. 77 FAVORE  BIANCHI SPA" -> "BIANCHI SPA"
      [] text = "SDD CORE: 12345  ENEL ENERGIA" -> "ENEL ENERGIA"
      [] OTHER -> ""      \* "Comm.sdd: 7  ACME", "VS.DISP. RIF. 77", ...

\* The candidate the fallback pattern finds in the description of a 62.
DescriptionCandidate(description) ==
    CASE description = "I24  AGENZIA ENTRATE" -> "AGENZIA ENTRATE"
      [] description = "16G  COMMISSIONI" -> "COMMISSIONI"
      [] OTHER -> ""      \* "BONIFICO", ""

\* The lines of a statement file. `seq` is the progressive number field,
\* which no parsing step reads.
LineRH(date_str) == [type |-> "RH", seq |-> 0, date_str |-> date_str]

Line62(op, val, sign, amount_raw, description) ==
    [type |-> "62", seq |-> 0, op_date_str |-> op, val_date_str |-> val,
     direction |-> sign, amount_raw |-> amount_raw, causale_abi |-> "480",
     reference_code |-> "r1", description |-> description, short |-> FALSE]

Line63(tag, content) == [type |-> "63", seq |-> 0, tag |-> tag, content |-> content]

LineBalance(type, date_str, sign, amount_raw) ==
    [type |-> type, seq |-> 0, date_str |-> date_str, sign |-> sign,
     amount_raw |-> amount_raw]

LineFlush(type) == [type |-> type, seq |-> 0]

\* _parse_balance_record; <<>> for None.
ParseBalanceRecord(line, balance_type, header_date) ==
    LET bal_date == IF ParseCbiDate(line.date_str) # 0
                    THEN ParseCbiDate(line.date_str) ELSE header_date
        amount == Round2(ParseItalianAmount(line.amount_raw))
    IN IF bal_date = 0 THEN <<>>
       ELSE <<[date |-> bal_date,
               balance |-> IF line.sign = "D" THEN -amount ELSE amount,
               type |-> balance_type]>>

\* The loop of _build_transaction over the 63 records, on the accumulator
\* [counterpart_name, counterpart_address, reference_code, remittance_parts,
\* extra_parts].
RECURSIVE Parse63(_, _)
Parse63(acc, lines_63) ==
    IF lines_63 = <<>> THEN acc
    ELSE LET l == Head(lines_63)
             name == ExtractCounterpartFromText(l.content)
             next ==
               IF l.tag = "YYY"
               THEN IF YyyName(l.content) = "" THEN acc
                    ELSE IF acc.counterpart_name = ""
                    THEN [acc EXCEPT !.counterpart_name = YyyName(l.content),
                                     !.counterpart_address =
                                        IF YyyAddress(l.content) = "" THEN <<>>
                                        ELSE <<YyyAddress(l.content)>>]
                    ELSE [acc EXCEPT !.counterpart_address =
                                        Append(@, YyyRemaining(l.content))]
               ELSE IF l.tag = "ID1"
               THEN IF l.content \notin {"", "NOTPROVIDED", "NOT PROVIDED"}
                    THEN [acc EXCEPT !.reference_code = l.content] ELSE acc
               ELSE IF l.tag \in {"RI1", "RI2"}
               THEN IF l.content # ""
                    THEN [acc EXCEPT !.remittance_parts = Append(@, l.content)]
                    ELSE acc
               ELSE \* VS., SDD, BOL, CAR, and free text that holds neither
                    \* RI1 nor ID1 and does not begin with CODICE ABI
                    IF name # "" /\ acc.counterpart_name = ""
                    THEN [acc EXCEPT !.counterpart_name = name,
                                     !.extra_parts = Append(@, l.content)]
                    ELSE [acc EXCEPT !.extra_parts = Append(@, l.content)]
         IN Parse63(next, Tail(lines_63))


NoMovement == [valid |-> FALSE]

\* _build_transaction: the movement of a 62 record and its 63 records, or
\* None.
BuildTransaction(line_62, lines_63, header_date) ==
    LET operation_date == IF ParseCbiDate(line_62.op_date_str) # 0
                          THEN ParseCbiDate(line_62.op_date_str) ELSE header_date
        amount == ParseItalianAmount(line_62.amount_raw)
        acc == Parse63([counterpart_name |-> "", counterpart_address |-> <<>>,
                        reference_code |-> line_62.reference_code,
                        remittance_parts |-> <<>>, extra_parts |-> <<>>],
                       lines_63)
        candidate == DescriptionCandidate(line_62.description)
        counterpart_name ==
            IF acc.counterpart_name = "" /\ candidate \notin {"", "COMMISSIONI", "COMPETENZE"}
            THEN candidate ELSE acc.counterpart_name
    IN IF line_62.short \/ operation_date = 0
          \/ line_62.direction \notin {"C", "D"} \/ amount = 0
       THEN NoMovement
       ELSE [valid |-> TRUE,
             operation_date |-> operation_date,
             value_date |-> ParseCbiDate(line_62.val_date_str),
             amount |-> Round2(amount),
             direction |-> line_62.direction,
             causale_abi |-> line_62.causale_abi,
             causale_description |-> CausaleDescription(line_62.causale_abi),
             counterpart_name |-> counterpart_name,
             counterpart_address |-> acc.counterpart_address,
             remittance_info |-> acc.remittance_parts,
             reference_code |-> acc.reference_code,
             description |-> (IF line_62.description = "" THEN <<>>
                              ELSE <<line_62.description>>) \o acc.extra_parts,
             raw_data |-> <<line_62>> \o lines_63,
             dedup_hash |-> DedupHash(operation_date, amount, acc.reference_code,
                                      line_62.causale_abi, counterpart_name)]

\* The pending 62 record, if any, is built and appended when it is valid.
Finalize(st) ==
    IF ~st.open THEN st
    ELSE LET tx == BuildTransaction(st.current_62, st.current_63_lines, st.header_date)
         IN IF tx.valid THEN [st EXCEPT !.transactions = Append(@, tx)] ELSE st

Closed(st) == [st EXCEPT !.open = FALSE, !.current_62 = <<>>, !.current_63_lines = <<>>]

\* An iteration that opens a 62 record without emptying the list of 63 records.
ParseLineKeeps63(st, line) ==
    CASE line.type = "RH" ->
           IF ParseCbiDate(line.date_str) # 0
           THEN [st EXCEPT !.header_date = ParseCbiDate(line.date_str)] ELSE st
      [] line.type = "61" ->
           [st EXCEPT !.balances = @ \o ParseBalanceRecord(line, "apertura", st.header_date)]
      [] line.type = "62" ->
           [Finalize(st) EXCEPT !.open = TRUE, !.current_62 = line]
      [] line.type = "63" ->
           [st EXCEPT !.current_63_lines = Append(@, line)]
      [] line.type = "64" ->
           LET f == IF st.open THEN Closed(Finalize(st)) ELSE st
           IN [f EXCEPT !.balances =
                           @ \o ParseBalanceRecord(line, "chiusura", st.header_date)]
      [] line.type \in {"65", "EF"} ->
           IF st.open THEN Closed(Finalize(st)) ELSE st
      [] OTHER -> st

\* One iteration of the loop of parse_cbi_file.
ParseLine(st, line) ==
    CASE line.type = "RH" ->
           IF ParseCbiDate(line.date_str) # 0
           THEN [st EXCEPT !.header_date = ParseCbiDate(line.date_str)] ELSE st
      [] line.type = "61" ->
           [st EXCEPT !.balances = @ \o ParseBalanceRecord(line, "apertura", st.header_date)]
      [] line.type = "62" ->
           [Finalize(st) EXCEPT !.open = TRUE, !.current_62 = line,
                                !.current_63_lines = <<>>]
      [] line.type = "63" ->
           [st EXCEPT !.current_63_lines = Append(@, line)]
      [] line.type = "64" ->
           LET f == IF st.open THEN Closed(Finalize(st)) ELSE st
           IN [f EXCEPT !.balances =
                           @ \o ParseBalanceRecord(line, "chiusura", st.header_date)]
      [] line.type \in {"65", "EF"} ->
           IF st.open THEN Closed(Finalize(st)) ELSE st
      [] OTHER -> st

RECURSIVE ParseLines(_, _)
ParseLines(st, lines) ==
    IF lines = <<>> THEN st ELSE ParseLines(ParseLine(st, Head(lines)), Tail(lines))

\* parse_cbi_file: the movements and balances of the lines of a file.
parse_cbi_file(lines) ==
    LET st == Finalize(ParseLines([transactions |-> <<>>, balances |-> <<>>,
                                   open |-> FALSE, current_62 |-> <<>>,
                                   current_63_lines |-> <<>>, header_date |-> 0],
                                  lines))
    IN [transactions |-> st.transactions, balances |-> st.balances]

----------------------------------------------------------------------------
(* The parser specification: parse_cbi_file on every file of one to four       *)
(* lines drawn from day headers (valid and not), 62 records (with and without  *)
(* their own date, of bad direction, of zero, sub-cent and negative amount),   *)
(* 63 records (structured name, free text with a name, remittance), a closing  *)
(* balance and end records.  Line i of a file has progressive number i.        *)

ParseRecords ==
    { LineRH("100425"), LineRH("110425"), LineRH("310425"),
      Line62("150425", "150425", "D", "000000001000,00", "BONIFICO"),
      Line62("      ", "150425", "C", "000000000150,00", "I24  AGENZIA ENTRATE"),
      Line62("150425", "150425", "X", "000000001000,00", "BONIFICO"),
      Line62("150425", "150425", "D", "000000000000,00", "16G  COMMISSIONI"),
      Line62("150425", "150425", "D", "00000000000,004", "BONIFICO"),
      Line62("150425", "150425", "D", "-00000000150,00", "16G  COMMISSIONI"),
      Line63("YYY", "15042025  ROSSI SRL   VIA ROMA 1"),
      Line63("YYY", "15042025  VERDI SNC"),
      Line63("VS.", "VS.DISP. RIF. 77 FAVORE  BIANCHI SPA"),
      Line63("RI1", "SALDO FATTURA 12"),
      LineBalance("64", "150425", "C", "000000001000,00"),
      LineFlush("65"), LineFlush("EF") }

ParseLengths == 1..4

Numbered(records) == [i \in DOMAIN records |-> [records[i] EXCEPT !.seq = i]]

\* Worker 1 has received the upload of a file.
InitParse ==
    /\ bank_transactions = <<>>
    /\ transactions = InitialLedger
    /\ bank_balances = <<>>
    /\ auto_rules = InitialRules
    /\ ignore_reasons = IgnoreReasonIds
    /\ flashed = Flash("none", 0, 0, 0, 0)
    /\ decisions = <<>>
    /\ manual_ops = 0
    /\ last_import = NoImport
    /\ \E n \in ParseLengths : \E records \in [1..n -> ParseRecords] :
          sessions = [w \in Workers |->
                        IF w = 1
                        THEN Session("open", "upload", 1, {}, Numbered(records),
                                     "none", {})
                        ELSE IdleSession(0)]

\* Lines 107-110 of upload: the file of the request is parsed.
ParseUpload(w) ==
    /\ Open(w)
    /\ sessions[w].kind = "upload"
    /\ flashed.category = "none"
    /\ flashed' = [category |-> "parsed", lines |-> sessions[w].data,
                   result |-> parse_cbi_file(sessions[w].data)]
    /\ UNCHANGED <<bank_transactions, transactions, bank_balances, auto_rules,
                   ignore_reasons, decisions, manual_ops, last_import, sessions>>

NextParse == \E w \in Workers : ParseUpload(w)

SpecParse == InitParse /\ [][NextParse]_vars

----------------------------------------------------------------------------
(* The notification specification: the upload requests of one worker, step by  *)
(* step: the try block up to the flush, the flush/reconcile/commit, the        *)
(* Telegram summary (sent, or raising), the response.                          *)

\* The notification sink: the message is sent, or the call raises.
Sinks == {"sent", "raises"}

\* The summary call of a committed upload of worker w whose failure would
\* reach the except block of the handler.
SendTelegramMessageUnguarded(w, sink) ==
    /\ sessions[w].pc = "done"
    /\ sessions[w].kind = "upload"
    /\ sessions[w].outcome = "committed"
    /\ sessions' = [sessions EXCEPT ![w].outcome =
                       IF sink = "sent" THEN "notified" ELSE "notify_failed"]
    /\ flashed' = IF sink = "sent" THEN flashed ELSE Flash("danger", 0, 0, 0, 0)
    /\ UNCHANGED <<bank_transactions, transactions, bank_balances, auto_rules,
                   ignore_reasons, decisions, manual_ops, last_import>>

\* Lines 175-187 of upload, reached after the commit: the summary is sent;
\* an exception of the call is swallowed.
SendTelegramMessage(w, sink) ==
    /\ sessions[w].pc = "done"
    /\ sessions[w].kind = "upload"
    /\ sessions[w].outcome = "committed"
    /\ sessions' = [sessions EXCEPT ![w].outcome =
                       IF sink = "sent" THEN "notified" ELSE "notify_failed"]
    /\ UNCHANGED <<bank_transactions, transactions, bank_balances, auto_rules,
                   ignore_reasons, flashed, decisions, manual_ops, last_import>>

\* The response of an upload: after the summary call when the batch was
\* committed, straight from the except block otherwise.
EndUpload(w) ==
    /\ sessions[w].outcome # "committed"
    /\ EndRequest(w)

NextNotify ==
    \/ \E f \in Files \cup BalanceFiles \cup RuleFiles : BeginUpload(1, f)
    \/ \E ord \in RuleOrders(auto_rules) : CommitUpload(1, ord)
    \/ \E sink \in Sinks : SendTelegramMessage(1, sink)
    \/ EndUpload(1)

SpecNotify == Init /\ [][NextNotify]_vars

----------------------------------------------------------------------------
(* The batch specification: imports of files whose two movements compete for   *)
(* one ledger entry, over the ledgers of the matcher specification.  The       *)
(* first pair are two debits of 1000 of the same counterpart; the second a     *)
(* credit of 200 that rule "incassi" creates an entry for and a credit of 202  *)
(* that meets no rule.                                                         *)

mP == TxData(105, 105, 1000, DirD, "260", <<1, 2>>, <<>>, "r7")
mE == TxData(105, 105, 200, DirC, "480", <<3>>, <<>>, "r5")
mF == TxData(105, 105, 202, DirC, "480", <<3>>, <<>>, "r6")

BatchFiles ==
    { [transactions |-> <<mA, mP>>, balances |-> <<>>],
      [transactions |-> <<mE, mF>>, balances |-> <<>>] }

NextBatch ==
    \E f \in BatchFiles, ord \in RuleOrders(auto_rules), fail \in FailurePoints :
        Upload(f, ord, fail)

SpecBatch == InitMatch /\ [][NextBatch]_vars

----------------------------------------------------------------------------
(* The re-parse specification: scripts/reparse_bank_data.py run, first dry or  *)
(* not, on three stored movements (one confirmed by hand, one ignored with a   *)
(* reason, one pending that a rule matched).  Each was imported by some        *)
(* earlier parser: its raw_data is missing, or a 62 record alone or with one   *)
(* 63 record, or lines today's parser rejects; its stored name is today's or   *)
(* not, and the stored texts of all three are today's or all empty.  The       *)
(* hashes of the stored movements are distinct, as the unique constraint on    *)
(* dedup_hash demands.                                                         *)

Raw62 == Line62("150425", "150425", "C", "000000000150,00", "BONIFICO")

ReparseRaw ==
    { <<>>,
      <<Raw62>>,
      <<Raw62, Line63("YYY", "15042025  ROSSI SRL   VIA ROMA 1")>>,
      <<Raw62, Line63("YYY", "15042025  VERDI SNC")>>,
      <<Raw62, Line63("VS.", "VS.DISP. RIF. 77 FAVORE  BIANCHI SPA")>>,
      <<Line63("RI1", "SALDO FATTURA 12"), Raw62>>,
      <<Line62("150425", "150425", "D", "000000000000,00", "16G  COMMISSIONI")>> }

StoredNames == {"", "ROSSI SRL", "VERDI SNC"}

\* reparse_transaction: the dict of today's parser for a stored movement, or
\* None.
reparse_transaction(bt) ==
    IF bt.raw_data = <<>> THEN NoMovement
    ELSE IF Head(bt.raw_data).type # "62" THEN NoMovement
    ELSE BuildTransaction(Head(bt.raw_data),
                          SelectSeq(Tail(bt.raw_data), LAMBDA l : l.type = "63"),
                          bt.operation_date)

\* A stored movement: the columns the import filled from the parser of its
\* day (name `name`; description and reason text empty when `stale`), the
\* reconciliation columns as given.
StoredRow(raw, name, stale, status, t, by, rule, reason) ==
    LET d == BuildTransaction(Raw62, <<>>, 0)
        now == reparse_transaction([raw_data |-> raw, operation_date |-> d.operation_date])
        row == BankRow(d, 1)
    IN [row EXCEPT !.counterpart_name = name,
                   !.causale_description = IF stale THEN <<>> ELSE @,
                   !.dedup_hash = DedupHash(d.operation_date,
                                            ParseItalianAmount(Raw62.amount_raw),
                                            d.reference_code, d.causale_abi, name),
                   !.status = status, !.matched_transaction_id = t,
                   !.matched_by = by, !.matched_rule_id = rule,
                   !.ignore_reason_id = reason]
       @@ [description |-> IF stale \/ ~now.valid THEN <<>> ELSE now.description,
           raw_data |-> raw]

\* What the script reports: how it ran, the movements it changed, those whose
\* hash it replaced, those whose hash it left because of a collision, and
\* those that took a hash another movement of the session held.
Report(category, updated, rehashed, skipped, clashes) ==
    [category |-> category, updated |-> updated, rehashed |-> rehashed,
     skipped |-> skipped, clashes |-> clashes]

InitReparse ==
    /\ \E raw \in [1..3 -> ReparseRaw], name \in [1..3 -> StoredNames],
          stale \in BOOLEAN :
          /\ \A i, j \in 1..3 : name[i] = name[j] => i = j
          /\ bank_transactions =
                <<StoredRow(raw[1], name[1], stale, "riconciliato", 1, "manuale", NoId, NoId),
                  StoredRow(raw[2], name[2], stale, "ignorato", NoId, "none", NoId, 1),
                  StoredRow(raw[3], name[3], stale, "non_riconciliato", NoId, "none", 1, NoId)>>
    /\ transactions = InitialLedger
    /\ bank_balances = <<>>
    /\ auto_rules = InitialRules
    /\ ignore_reasons = IgnoreReasonIds
    /\ flashed = Report("none", {}, {}, {}, {})
    /\ decisions = <<>>
    /\ manual_ops = 0
    /\ last_import = NoImport
    /\ sessions = [w \in Workers |-> IdleSession(0)]

\* existing_hashes as the first loop of main builds it.
ExistingHashes(bts) ==
    [h \in Hashes(bts) |-> CHOOSE i \in DOMAIN bts : bts[i].dedup_hash = h]

\* A collision test that never finds one.
HashCollisionNever(existing_hashes, new_hash, id) == FALSE

\* The collision test of main: the new hash belongs to another movement.
HashCollision(existing_hashes, new_hash, id) ==
    new_hash \in DOMAIN existing_hashes /\ existing_hashes[new_hash] # id

\* One iteration of the loop of main over the session's movements.
ReparseOne(st, id, dry_run) ==
    LET bt == st.bt[id]
        tx_data == reparse_transaction(bt)
    IN IF ~tx_data.valid THEN st
       ELSE
       LET new_hash == tx_data.dedup_hash
           collision == new_hash # bt.dedup_hash
                        /\ HashCollision(st.existing_hashes, new_hash, id)
           rehash == new_hash # bt.dedup_hash /\ ~collision
           changed == \/ bt.description # tx_data.description
                      \/ bt.counterpart_name # tx_data.counterpart_name
                      \/ bt.causale_description # tx_data.causale_description
                      \/ rehash
           held == \E j \in DOMAIN st.bt \ {id} : st.bt[j].dedup_hash = new_hash
       IN IF dry_run
          THEN [st EXCEPT !.updated = IF changed THEN @ \cup {id} ELSE @,
                          !.rehashed = IF rehash THEN @ \cup {id} ELSE @,
                          !.skipped = IF collision THEN @ \cup {id} ELSE @]
          ELSE [bt |-> [st.bt EXCEPT
                           ![id].description = tx_data.description,
                           ![id].counterpart_name = tx_data.counterpart_name,
                           ![id].causale_description = tx_data.causale_description,
                           ![id].dedup_hash = IF rehash THEN new_hash ELSE @],
                existing_hashes |->
                    IF rehash
                    THEN (new_hash :> id) @@
                         [h \in DOMAIN st.existing_hashes \ {bt.dedup_hash} |->
                             st.existing_hashes[h]]
                    ELSE st.existing_hashes,
                updated |-> IF changed THEN st.updated \cup {id} ELSE st.updated,
                rehashed |-> IF rehash THEN st.rehashed \cup {id} ELSE st.rehashed,
                skipped |-> IF collision THEN st.skipped \cup {id} ELSE st.skipped,
                clashes |-> IF rehash /\ held THEN st.clashes \cup {id}
                            ELSE st.clashes]

RECURSIVE ReparseLoop(_, _, _)
ReparseLoop(st, ids, dry_run) ==
    IF ids = <<>> THEN st
    ELSE ReparseLoop(ReparseOne(st, Head(ids), dry_run), Tail(ids), dry_run)

\* The flush of the session: one UPDATE per changed movement in primary-key
\* order; FALSE when one of them breaks the unique constraint on dedup_hash.
RECURSIVE FlushFrom(_, _, _)
FlushFrom(db, bts, i) ==
    IF i > Len(bts) THEN TRUE
    ELSE IF \E j \in DOMAIN db \ {i} : db[j].dedup_hash = bts[i].dedup_hash
    THEN FALSE
    ELSE FlushFrom([db EXCEPT ![i] = bts[i]], bts, i + 1)

\* main: the loop over BankTransaction.query.all(), in the order the database
\* returns the rows, then the counts (which flush) and, unless dry, the commit.
ReparseBankData(order, dry_run) ==
    /\ flashed.category \in {"none", "dry_run"}
    /\ order \in Permutations(DOMAIN bank_transactions)
    /\ LET st == ReparseLoop([bt |-> bank_transactions,
                              existing_hashes |-> ExistingHashes(bank_transactions),
                              updated |-> {}, rehashed |-> {}, skipped |-> {},
                              clashes |-> {}],
                             order, dry_run)
           flushed == FlushFrom(bank_transactions, st.bt, 1)
       IN /\ bank_transactions' = IF flushed /\ ~dry_run THEN st.bt
                                  ELSE bank_transactions
          /\ flashed' = Report(IF ~flushed THEN "crashed"
                               ELSE IF dry_run THEN "dry_run" ELSE "reparse",
                               st.updated, st.rehashed, st.skipped, st.clashes)
    /\ UNCHANGED <<transactions, bank_balances, auto_rules, ignore_reasons,
                   decisions, manual_ops, last_import, sessions>>

NextReparse ==
    \E order \in Permutations(DOMAIN bank_transactions), dry_run \in BOOLEAN :
       ReparseBankData(order, dry_run)

SpecReparse == InitReparse /\ [][NextReparse]_vars

----------------------------------------------------------------------------
(* Claims *)

\* The movements linked to ledger entry t.
MatchesOf(t) ==
    {i \in DOMAIN bank_transactions : bank_transactions[i].matched_transaction_id = t}

\* C1: in every state reached by imports, automatic reconciliation, manual
\* confirm, create-from-movement, ignore, restore and rule re-apply, no ledger
\* entry is the match target of two different movements.
C1_OneMovementPerEntry ==
    \A t \in DOMAIN transactions : Cardinality(MatchesOf(t)) <= 1

\* Two requests ran concurrently: each was open while the other was.
Concurrent(w, v) ==
    /\ w # v
    /\ sessions[w].pc = "done"
    /\ sessions[v].pc = "done"
    /\ v \in sessions[w].rivals
    /\ w \in sessions[v].rivals

\* C2: when two operations that claim a ledger entry run concurrently in
\* separate transactions against the same entry, at most one of them commits
\* its link: they never both commit links of different movements to it.
C2_OneClaimCommits ==
    \A w, v \in Workers :
        Concurrent(w, v) /\ sessions[w].outcome = "committed"
                         /\ sessions[v].outcome = "committed"
        => \A a \in sessions[w].claimed, b \in sessions[v].claimed :
              a[2] = b[2] => a[1] = b[1]

\* C3: in every committed state no two persisted movements share a
\* dedup_hash, also when two imports of overlapping files both pass the
\* existence check before either commits.
C3_UniqueDedupHash ==
    \A i, j \in DOMAIN bank_transactions :
        bank_transactions[i].dedup_hash = bank_transactions[j].dedup_hash => i = j

\* C3's case: two imports ran concurrently holding a movement of the same
\* hash, one committed it and the flush of the other was refused.
C3_SecondInsertRefused ==
    \E w, v \in Workers :
        /\ Concurrent(w, v)
        /\ sessions[w].kind = "upload" /\ sessions[w].outcome = "rolled_back"
        /\ sessions[v].kind = "upload" /\ sessions[v].outcome = "committed"
        /\ Hashes(sessions[w].data.added) \cap Hashes(sessions[v].data.added) # {}

\* The tables an import writes.
Persisted == <<bank_transactions, transactions, bank_balances>>

\* C4: importing a file a second time, with no other write in between,
\* persists no new movement, counts every parsed movement of the file as a
\* duplicate and leaves the persisted movements as the first import left them.
C4_ReimportAddsNothing ==
    [][\A f \in Files, ord \in RuleOrders(auto_rules) :
          last_import.run # "none" /\ last_import.file = f /\ Upload(f, ord, "none")
          => /\ flashed'.category = "success"
             /\ flashed'.imported = 0
             /\ flashed'.duplicates = Len(f.transactions)
             /\ bank_transactions' = bank_transactions]_vars

\* C4's case: a file with movements was imported twice in a row.
C4_ImportedTwice ==
    /\ last_import.run = "again"
    /\ last_import.file.transactions # <<>>
    /\ flashed.category = "success"

\* C5: a storage failure at any point of an import rolls the whole batch
\* back: no movement, balance snapshot, rule-created entry, link or payment
\* change of the batch is visible, and no movement is reported as imported.
\* The failure is the step that ends in the error report of the except block.
C5_FailedImportRollsBack ==
    [][flashed'.category = "danger"
          => Persisted' = Persisted /\ flashed'.imported = 0]_vars

\* C5's case: an import that would have written movements, a ledger entry, a
\* link and a payment failed, and the tables are as they were before it.
C5_FailedOnEmptyTables ==
    /\ flashed.category = "danger"
    /\ bank_transactions = <<>>
    /\ bank_balances = <<>>
    /\ transactions = InitialLedger

\* The status transitions of the lifecycle of a movement.
LifecycleTransitions ==
    {<<"non_riconciliato", "riconciliato">>,
     <<"non_riconciliato", "ignorato">>,
     <<"ignorato", "non_riconciliato">>}

\* C6: the only status transitions a movement ever makes are
\* pending -> reconciled, pending -> ignored and ignored -> pending.
C6_OnlyLifecycleTransitions ==
    [][\A i \in DOMAIN bank_transactions :
          bank_transactions'[i].status # bank_transactions[i].status
          => <<bank_transactions[i].status, bank_transactions'[i].status>>
                \in LifecycleTransitions]_vars

\* C7: in every reachable state a movement whose status is reconciled has its
\* matched ledger entry set and its matched_by set.
C7_ReconciledIsLinked ==
    \A i \in DOMAIN bank_transactions :
        bank_transactions[i].status = "riconciliato"
        => /\ bank_transactions[i].matched_transaction_id # NoId
           /\ bank_transactions[i].matched_by # "none"

\* The fields of a parsed movement, as a persisted row carries them.
PersistedAs(d) ==
    \E i \in DOMAIN bank_transactions :
        \A k \in DOMAIN d : bank_transactions[i][k] = d[k]

\* C8: when two distinct movements, differing in a field that is not an
\* input of the hash, compute the same dedup hash, an import keeps both as
\* persisted movements.
C8_CollidingMovementsBothKept ==
    last_import.run # "none"
    => LET ms == last_import.file.transactions
       IN \A k, l \in 1..Len(ms) :
             ms[k] # ms[l] /\ ms[k].dedup_hash = ms[l].dedup_hash
             => PersistedAs(ms[k]) /\ PersistedAs(ms[l])

\* C9: reconcile_batch tries rule auto-create, then the structured-source
\* match, then the manual/bank-source match, and stops at the first that
\* acts: a movement whose first matching rule has the auto-create flag is
\* never linked to an existing ledger entry, and a movement is linked to a
\* manual- or bank-source entry only if no structured-source candidate
\* scored at least 80.
C9_StagesInOrder ==
    \A i \in DOMAIN decisions :
        LET d == decisions[i]
        IN /\ d.rule_auto => d.stage = 1 /\ ~d.tx_existed
           /\ d.tx_existed /\ d.tx_source \in {"manuale", "banca"}
              => d.stage = 3 /\ d.sdi_best < AUTO_MATCH_THRESHOLD

\* C9's case: a rule created the entry of a movement that had a
\* structured-source candidate scoring at least 80, and another movement was
\* linked to a manual-source entry.
C9_RuleWonAndManualMatched ==
    /\ \E i \in DOMAIN decisions :
          decisions[i].rule_auto /\ decisions[i].sdi_best >= AUTO_MATCH_THRESHOLD
    /\ \E i \in DOMAIN decisions :
          decisions[i].stage = 3 /\ decisions[i].tx_source = "manuale"

\* The movements a step adds whose first matching rule has auto-create.
AutoCreated ==
    {i \in DOMAIN bank_transactions' \ DOMAIN bank_transactions :
        decisions'[i].rule_auto}

\* C10: when the first matching rule of a pending movement has the
\* auto-create flag, reconciling it creates exactly one ledger entry with the
\* movement's amount and operation date and the polarity of its direction,
\* links the movement to it, and leaves the movement reconciled with
\* matched_by = rule.
C10_RuleCreatesOneEntry ==
    [][/\ \A i \in AutoCreated :
             LET b == bank_transactions'[i]
                 t == b.matched_transaction_id
             IN /\ b.status = "riconciliato"
                /\ b.matched_by = "regola"
                /\ b.matched_rule_id = decisions'[i].rule
                /\ t \in DOMAIN transactions' \ DOMAIN transactions
                /\ transactions'[t].amount = b.amount
                /\ transactions'[t].date = b.operation_date
                /\ transactions'[t].type =
                      (IF b.direction = DirC THEN "entrata" ELSE "uscita")
       /\ DOMAIN bank_transactions' # DOMAIN bank_transactions
          => Cardinality(DOMAIN transactions' \ DOMAIN transactions)
                = Cardinality(AutoCreated)]_vars

\* C10's case: the movement of amount 150 met the rule of range 100..200 and
\* is reconciled by it with the entry the rule created.
C10_Amount150Created ==
    \E i \in DOMAIN bank_transactions :
        /\ bank_transactions[i].amount = 150
        /\ bank_transactions[i].matched_by = "regola"
        /\ i \in DOMAIN decisions
        /\ decisions[i].rule_auto
        /\ auto_rules[decisions[i].rule].match_amount_min = 100
        /\ auto_rules[decisions[i].rule].match_amount_max = 200
        /\ bank_transactions[i].matched_transaction_id \in DOMAIN transactions

\* The movements a step stores.
NewlyStored == DOMAIN bank_transactions' \ DOMAIN bank_transactions

\* The highest score of the candidates of stage 3: those of the manual and
\* of the bank source together.
ThirdStageBest(d) == Max({d.man_best, d.bank_best})

\* C11 as stated: reconcile_batch links a movement to an existing ledger entry
\* automatically only when that entry's score is at least 80 and it is a
\* highest-scoring candidate of its stage's pool; the movement then has
\* matched_by = auto, and a structured-source entry becomes paid with payment
\* date equal to the movement's operation date.  If no candidate reaches 80 in
\* any stage the movement stays pending and nothing is linked.
C11_AutoLinkOnlyBestOver80 ==
    [][\A i \in NewlyStored :
          LET b == bank_transactions'[i]
              d == decisions'[i]
              t == b.matched_transaction_id
          IN /\ b.matched_by = "auto"
                => /\ t \in DOMAIN transactions
                   /\ b.status = "riconciliato"
                   /\ ComputeScore(b, transactions[t]) >= 80
                   /\ ComputeScore(b, transactions[t])
                         >= (IF transactions[t].source = "sdi"
                             THEN d.sdi_best ELSE ThirdStageBest(d))
                   /\ transactions[t].source = "sdi"
                      => /\ transactions'[t].payment_status = "pagato"
                         /\ transactions'[t].payment_date = b.operation_date
             /\ d.sdi_best < 80 /\ d.man_best < 80 /\ d.bank_best < 80
                => /\ b.status = "non_riconciliato"
                   /\ b.matched_transaction_id = NoId]_vars

\* C11 as amended: reconcile_batch links a movement to an existing ledger
\* entry automatically only when that entry's score is at least 80 and it is
\* a highest-scoring candidate of its own source (structured; manual; bank,
\* which is searched only when no manual-source candidate reaches 80); the
\* movement then has matched_by = auto, and a structured-source entry becomes
\* paid with payment date equal to the movement's operation date.  If no rule
\* auto-creates an entry for the movement and no candidate reaches 80 in any
\* stage, the movement stays pending and nothing is linked.
C11_AutoLinkBestOfItsSource ==
    [][\A i \in NewlyStored :
          LET b == bank_transactions'[i]
              d == decisions'[i]
              t == b.matched_transaction_id
          IN /\ b.matched_by = "auto"
                => /\ t \in DOMAIN transactions
                   /\ b.status = "riconciliato"
                   /\ ComputeScore(b, transactions[t]) >= 80
                   /\ ComputeScore(b, transactions[t]) >= d.pool_best
                   /\ transactions[t].source = "sdi"
                      => /\ transactions'[t].payment_status = "pagato"
                         /\ transactions'[t].payment_date = b.operation_date
             /\ ~d.rule_auto /\ d.sdi_best < 80 /\ d.man_best < 80 /\ d.bank_best < 80
                => /\ b.status = "non_riconciliato"
                   /\ b.matched_transaction_id = NoId]_vars

\* C11's case: a movement was linked to the structured-source entry of the
\* highest score, now paid on the movement's date, while another
\* structured-source entry scored at least 80 but less.
C11_BestOfTwoLinked ==
    \E i \in DOMAIN decisions :
        LET b == bank_transactions[i]
            t == b.matched_transaction_id
        IN /\ b.matched_by = "auto"
           /\ decisions[i].stage = 2
           /\ transactions[t].payment_status = "pagato"
           /\ transactions[t].payment_date = b.operation_date
           /\ \E u \in DOMAIN transactions :
                 /\ transactions[u].source = "sdi"
                 /\ transactions[u].payment_status = "da_pagare"
                 /\ ComputeScore(b, transactions[u]) >= 80
                 /\ ComputeScore(b, transactions[u]) < decisions[i].score

\* C12: every ledger entry that automatic matching links to a movement
\* satisfied, at link time, all candidate conditions: its polarity matches the
\* direction (credit -> income, debit -> expense), its date is within 30 days
\* of the movement's operation date, it is not linked to a different
\* movement, and, for the structured-invoice source, its payment status is
\* unpaid or partially paid.
C12_LinkedWasCandidate ==
    [][\A i \in NewlyStored :
          LET b == bank_transactions'[i]
              t == b.matched_transaction_id
          IN b.matched_by = "auto"
             => /\ t \in DOMAIN transactions
                /\ b.direction = DirC => transactions[t].type = "entrata"
                /\ b.direction = DirD => transactions[t].type = "uscita"
                /\ Abs(transactions[t].date - b.operation_date) <= 30
                /\ \A j \in DOMAIN bank_transactions' \ {i} :
                      bank_transactions'[j].matched_transaction_id # t
                /\ transactions[t].source = "sdi"
                   => transactions[t].payment_status \in {"da_pagare", "parziale"}]_vars

\* C12's case: a movement was linked automatically while an entry of a
\* higher score was passed over because the older movement is linked to it.
C12_LinkedEntryPassedOver ==
    \E i \in DOMAIN decisions :
        LET b == bank_transactions[i]
            t == b.matched_transaction_id
            u == bank_transactions[1].matched_transaction_id
        IN /\ i # 1
           /\ b.matched_by = "auto"
           /\ u \in DOMAIN transactions
           /\ u # t
           /\ transactions[u].type = "uscita"
           /\ ComputeScore(b, transactions[u]) > decisions[i].score

\* The pair of C13's scenario: a movement of amount 1000 with no counterpart
\* name and a ledger entry of amount 1000 of the same polarity dated five days
\* before it.
Scenario1000(i, t) ==
    LET b == bank_transactions[i]
        tx == transactions[t]
    IN /\ b.amount = 1000
       /\ tx.amount = 1000
       /\ b.operation_date - tx.date = 5
       /\ b.counterpart_name = <<>>
       /\ tx.type = (IF b.direction = DirC THEN "entrata" ELSE "uscita")

\* The entry is open to the movement: no other movement is linked to it and,
\* if it is an invoice, it is not paid.
OpenTo(i, t) ==
    /\ \A j \in DOMAIN bank_transactions \ {i} :
          bank_transactions[j].matched_transaction_id # t
    /\ transactions[t].source = "sdi"
       => transactions[t].payment_status \in {"da_pagare", "parziale"}

\* The proposals of the page for movement i that are about entry t.
ProposalsFor(i, t) ==
    {flashed.items[i][k] : k \in {x \in 1..Len(flashed.items[i]) :
                                    flashed.items[i][x].transaction = t}}

\* C13 as stated: for a movement of amount 1000.00 on day 5 and a ledger entry
\* of amount 1000.00 on day 0, same polarity, with no counterpart name set,
\* the score is 50 (amount dimension only); being below 80 the pair is
\* surfaced as a proposal and not auto-linked.
C13_ScenarioScores50 ==
    \A i \in DOMAIN bank_transactions, t \in DOMAIN transactions :
        Scenario1000(i, t)
        => /\ ~(bank_transactions[i].matched_by = "auto"
                /\ bank_transactions[i].matched_transaction_id = t)
           /\ flashed.category = "sospesi" /\ i \in DOMAIN flashed.items /\ OpenTo(i, t)
              => /\ ProposalsFor(i, t) # {}
                 /\ \A p \in ProposalsFor(i, t) : p.score = 50

\* C13 as amended: for that pair the score is 70 (50 of the amount dimension
\* and 20 of the date dimension, the dates being 5 days apart); being below
\* 80 the pair is surfaced as a proposal and not auto-linked.
C13_ScenarioScores70 ==
    \A i \in DOMAIN bank_transactions, t \in DOMAIN transactions :
        Scenario1000(i, t)
        => /\ ~(bank_transactions[i].matched_by = "auto"
                /\ bank_transactions[i].matched_transaction_id = t)
           /\ flashed.category = "sospesi" /\ i \in DOMAIN flashed.items /\ OpenTo(i, t)
              => /\ ProposalsFor(i, t) # {}
                 /\ \A p \in ProposalsFor(i, t) :
                       /\ p.score = 70
                       /\ p.reasons = <<"importo_identico", "data_vicina">>

\* C13's case: reconcile_batch left the movement of the scenario pending and
\* the page of the pending movements proposes the entry of the scenario.
C13_ScenarioProposed ==
    /\ flashed.category = "sospesi"
    /\ \E i \in DOMAIN flashed.items \cap DOMAIN decisions, t \in DOMAIN transactions :
          /\ Scenario1000(i, t)
          /\ decisions[i].stage = 0
          /\ ProposalsFor(i, t) # {}

\* Entry t is at most as far from the movement as entry u, in days.
NoFartherInDays(b, t, u) ==
    Abs(b.operation_date - transactions[t].date)
        <= Abs(b.operation_date - transactions[u].date)

\* The amount of entry t differs from the movement's by at most the
\* percentage that the amount of entry u does (both amounts positive).
NoFartherInAmount(b, t, u) ==
    /\ transactions[t].amount > 0
    /\ transactions[u].amount > 0
    /\ Abs(b.amount - transactions[t].amount) * transactions[u].amount
          <= Abs(b.amount - transactions[u].amount) * transactions[t].amount

\* C14: the score is monotone in each dimension: for fixed other inputs,
\* decreasing the date distance between movement and candidate never decreases
\* the date component, and decreasing the relative amount difference never
\* decreases the amount component; the total never exceeds 100.
C14_ScoreMonotone ==
    flashed.category = "scores"
    => LET b == bank_transactions[flashed.movement]
           sc == flashed.of
       IN /\ \A t, u \in DOMAIN sc :
                /\ NoFartherInDays(b, t, u) => sc[t].date >= sc[u].date
                /\ NoFartherInAmount(b, t, u) => sc[t].amount >= sc[u].amount
          /\ \A t \in DOMAIN sc :
                /\ sc[t].total = sc[t].amount + sc[t].name + sc[t].date
                /\ sc[t].total <= 100

\* C14's case: two entries were scored, the nearer one in days and in amount
\* got more points in both dimensions, and it reached the total of 100.
C14_NearerScoredHigher ==
    /\ flashed.category = "scores"
    /\ \E t, u \in DOMAIN flashed.of :
          /\ NoFartherInDays(bank_transactions[flashed.movement], t, u)
          /\ NoFartherInAmount(bank_transactions[flashed.movement], t, u)
          /\ flashed.of[t].date > flashed.of[u].date
          /\ flashed.of[t].amount > flashed.of[u].amount
          /\ flashed.of[u].amount > 0
          /\ flashed.of[t].total = 100

\* The points a reason stands for in the scoring table.
ReasonPoints(r) ==
    CASE r \in {"importo_identico", "importo_simile"} -> 50
      [] r = "importo_vicino" -> 20
      [] r = "nome_simile" -> 30
      [] r = "nome_parziale" -> 15
      [] r = "data_vicina" -> 20
      [] r = "data_compatibile" -> 10

RECURSIVE SumOfPoints(_)
SumOfPoints(rs) ==
    IF rs = <<>> THEN 0 ELSE ReasonPoints(Head(rs)) + SumOfPoints(Tail(rs))

\* Entry t is a candidate for movement i: polarity, window, open to it.
CandidateFor(i, t) ==
    /\ transactions[t].type =
          (IF bank_transactions[i].direction = DirC THEN "entrata" ELSE "uscita")
    /\ Abs(transactions[t].date - bank_transactions[i].operation_date) <= 30
    /\ OpenTo(i, t)

\* C15: for a pending movement get_match_proposals returns at most 5
\* candidates, every one with score > 20, ordered by score descending and each
\* carrying the reasons that contributed to its score; no candidate left out
\* has a higher score than one included, and no included entry is linked to
\* another movement.
C15_ProposalsRanked ==
    flashed.category = "sospesi"
    => \A i \in DOMAIN flashed.items :
          LET ps == flashed.items[i]
              b == bank_transactions[i]
              listed == {ps[k].transaction : k \in 1..Len(ps)}
          IN /\ Len(ps) <= 5
             /\ Cardinality(listed) = Len(ps)
             /\ \A k \in 1..Len(ps) :
                   /\ ps[k].transaction \in DOMAIN transactions
                   /\ CandidateFor(i, ps[k].transaction)
                   /\ ps[k].score = ComputeScore(b, transactions[ps[k].transaction])
                   /\ ps[k].score > 20
                   /\ SumOfPoints(ps[k].reasons) = ps[k].score
                   /\ \A l \in k..Len(ps) : ps[k].score >= ps[l].score
             /\ \A t \in DOMAIN transactions \ listed :
                   CandidateFor(i, t)
                   => \A k \in 1..Len(ps) :
                         ComputeScore(b, transactions[t]) <= ps[k].score

\* C15's case: five entries are proposed, a sixth candidate that scores above
\* 20 is left out, and so is an entry of a higher score that the older
\* movement is linked to.
C15_SixthLeftOut ==
    /\ flashed.category = "sospesi"
    /\ 2 \in DOMAIN flashed.items
    /\ Len(flashed.items[2]) = 5
    /\ flashed.items[2][1].score > flashed.items[2][5].score
    /\ \E t \in DOMAIN transactions :
          /\ CandidateFor(2, t)
          /\ ProposalsFor(2, t) = {}
          /\ ComputeScore(bank_transactions[2], transactions[t]) > 20
    /\ \E u \in DOMAIN transactions :
          /\ bank_transactions[1].matched_transaction_id = u
          /\ ComputeScore(bank_transactions[2], transactions[u])
                > flashed.items[2][5].score

\* What C16 says of every target but a structured-source one, and of the
\* movement: reconciled, linked to the target, matched_by = manual.
ConfirmedAgainst(id, t) ==
    /\ bank_transactions'[id].status = "riconciliato"
    /\ bank_transactions'[id].matched_transaction_id = t
    /\ bank_transactions'[id].matched_by = "manuale"
    /\ transactions[t].source # "sdi"
       => transactions'[t].payment_status = transactions[t].payment_status

\* C16 as stated: manual confirm of a movement against a target ledger entry
\* leaves the movement reconciled, linked to that entry, with matched_by =
\* manual, and a structured-source target is marked paid (payment date = the
\* movement's operation date); the payment status of a target from any other
\* source is left unchanged.
C16_ConfirmMarksInvoicePaidOnDate ==
    [][\A id \in DOMAIN bank_transactions, t \in DOMAIN transactions :
          Riconcilia(id, t)
          => /\ ConfirmedAgainst(id, t)
             /\ transactions[t].source = "sdi"
                => /\ transactions'[t].payment_status = "pagato"
                   /\ transactions'[t].payment_date
                         = bank_transactions[id].operation_date]_vars

\* C16 as amended: manual confirm of a movement against a target ledger entry
\* leaves the movement reconciled, linked to that entry, with matched_by =
\* manual, and a structured-source target that is unpaid or partially paid is
\* marked paid (payment date = the movement's operation date); the payment
\* status and payment date of a structured-source target in any other status,
\* and of a target from any other source, are left unchanged.
C16_ConfirmMarksOpenInvoicePaid ==
    [][\A id \in DOMAIN bank_transactions, t \in DOMAIN transactions :
          Riconcilia(id, t)
          => /\ ConfirmedAgainst(id, t)
             /\ IF /\ transactions[t].source = "sdi"
                   /\ transactions[t].payment_status \in {"da_pagare", "parziale"}
                THEN /\ transactions'[t].payment_status = "pagato"
                     /\ transactions'[t].payment_date
                           = bank_transactions[id].operation_date
                ELSE /\ transactions'[t].payment_status = transactions[t].payment_status
                     /\ transactions'[t].payment_date = transactions[t].payment_date
             /\ \A u \in DOMAIN transactions \ {t} : transactions'[u] = transactions[u]]_vars

\* C16's case: the movement, confirmed by hand against one invoice before, was
\* confirmed against the other: both invoices are paid on the movement's date
\* and the movement points at the second.
C16_ConfirmedAgainstSecondInvoice ==
    /\ manual_ops = 1
    /\ bank_transactions[1].status = "riconciliato"
    /\ bank_transactions[1].matched_by = "manuale"
    /\ bank_transactions[1].matched_transaction_id = 2
    /\ \A t \in {1, 2} :
          /\ transactions[t].source = "sdi"
          /\ transactions[t].payment_status = "pagato"
          /\ transactions[t].payment_date = bank_transactions[1].operation_date

\* C17: ignoring a pending movement with a reason and then restoring it
\* returns it to status pending with the ignore reason cleared and every other
\* field (link, matched_by, rule, amount, dates) as before the ignore, so that
\* it is again handled as a pending movement.  Stated on the two steps: the
\* ignore changes the status and the reason of the row and nothing else, and
\* the restore of the ignored row sets the status to pending, clears the
\* reason and changes nothing else; neither touches another table.
C17_IgnoreThenRestore ==
    [][\A id \in DOMAIN bank_transactions :
          /\ \A r \in ignore_reasons :
                bank_transactions[id].status = "non_riconciliato" /\ Ignora(id, r)
                => /\ bank_transactions' =
                         [bank_transactions EXCEPT ![id].status = "ignorato",
                                                   ![id].ignore_reason_id = r]
                   /\ transactions' = transactions
          /\ bank_transactions[id].status = "ignorato" /\ Ripristina(id)
             => /\ bank_transactions' =
                      [bank_transactions EXCEPT ![id].status = "non_riconciliato",
                                                ![id].ignore_reason_id = NoId]
                /\ bank_transactions'[id].status = "non_riconciliato"
                /\ bank_transactions'[id].ignore_reason_id = NoId
                /\ transactions' = transactions]_vars

\* C17's case: after two manual calls, the second a restore, the movement is
\* pending with no reason, no link, no matched_by and no rule.
C17_RestoredToPending ==
    /\ manual_ops = 2
    /\ flashed.category = "info"
    /\ bank_transactions[1] = BankRow(mD, 1)

\* The movements linked by manual confirmation.
ManuallyLinked ==
    {i \in DOMAIN bank_transactions :
        /\ bank_transactions[i].matched_by = "manuale"
        /\ bank_transactions[i].matched_transaction_id # NoId}

\* C18: rule re-apply, for any rule subset and either scope filter, never
\* changes the matched ledger entry or matched_by of a movement that was
\* linked by manual confirmation, whatever the movement's current status.
C18_ReapplyKeepsManualLinks ==
    [][\A rule_ids \in RuleIdChoices, scope \in {"tutti", "non_riconciliati"},
          ord \in RuleOrders(auto_rules) :
          RegoleRiapplica(rule_ids, scope, ord)
          => \A i \in ManuallyLinked :
                /\ bank_transactions'[i].matched_transaction_id
                      = bank_transactions[i].matched_transaction_id
                /\ bank_transactions'[i].matched_by = "manuale"]_vars

\* The order of the rule names in use.
NameBefore(n1, n2) == n1 = "alfa" /\ n2 = "beta"

\* The rules evaluated for the bank source: active, of scope bank or all.
EvaluatedForBank == {r \in DOMAIN auto_rules :
                        /\ auto_rules[r].active
                        /\ auto_rules[r].applies_to \in {"banca", "tutti"}}

\* Rule r comes before rule q: higher priority, or equal priority and the
\* smaller name.
ComesBefore(r, q) ==
    \/ auto_rules[r].priority > auto_rules[q].priority
    \/ /\ auto_rules[r].priority = auto_rules[q].priority
       /\ NameBefore(auto_rules[r].name, auto_rules[q].name)

\* C19: the rules evaluated for a transaction source are exactly those that
\* are active and whose scope is that source or all, in priority-descending
\* order with ties between equal priorities broken by name; so among two
\* matching rules of equal priority the one with the smaller name always wins.
C19_TiesBrokenByName ==
    \A i \in DOMAIN decisions :
        LET hits == {r \in EvaluatedForBank :
                        Matches(auto_rules[r], RuleData(bank_transactions[i]))}
        IN /\ hits = {} => decisions[i].rule = NoId
           /\ hits # {} => /\ decisions[i].rule \in hits
                           /\ \A q \in hits \ {decisions[i].rule} :
                                 ComesBefore(decisions[i].rule, q)

\* Every predicate rule `rule` sets holds of movement bt: the description
\* text occurs in the description or in the remittance text, the counterpart
\* text occurs in the counterpart name, the tax id and the reason code are
\* equal, the amount lies within the bounds set, the direction is equal up
\* to case.  A movement carries no tax id.
AllSpecifiedHold(rule, bt) ==
    /\ rule.match_description = <<>>
       \/ Contains(Upper(bt.causale_description), Upper(rule.match_description))
       \/ Contains(Upper(bt.remittance_info), Upper(rule.match_description))
    /\ rule.match_counterpart = <<>>
       \/ Contains(Upper(bt.counterpart_name), Upper(rule.match_counterpart))
    /\ rule.match_partita_iva = ""
    /\ rule.match_causale_abi \in {"", bt.causale_abi}
    /\ rule.match_amount_min = None \/ rule.match_amount_min <= bt.amount
    /\ rule.match_amount_max = None \/ bt.amount <= rule.match_amount_max
    /\ rule.match_direction = <<>>
       \/ Upper(rule.match_direction) = Upper(bt.direction)

HoldingRules(i) ==
    {r \in EvaluatedForBank : AllSpecifiedHold(auto_rules[r], bank_transactions[i])}

\* C20: apply_rules returns the action set of exactly one rule, the first in
\* evaluation order all of whose specified predicates hold, and returns
\* nothing iff no applicable rule matches; the actions of lower-ranked
\* matching rules are never merged into the result.
C20_FirstMatchingRuleOnly ==
    \A i \in DOMAIN decisions :
        LET d == decisions[i]
            hits == HoldingRules(i)
        IN /\ d.rule = NoId <=> hits = {}
           /\ d.rule # NoId =>
                 /\ d.rule \in hits
                 /\ \A q \in hits : auto_rules[q].priority <= auto_rules[d.rule].priority
                 /\ d.rule_auto = auto_rules[d.rule].action_auto_create

\* An import in which a movement met two rules, took the one of higher
\* priority without the auto-creation the other asks for, and another
\* movement met no rule.
C20_HigherOfTwoTaken ==
    /\ \E i \in DOMAIN decisions :
          /\ Cardinality(HoldingRules(i)) = 2
          /\ \E q \in HoldingRules(i) :
                /\ auto_rules[q].priority < auto_rules[decisions[i].rule].priority
                /\ auto_rules[q].action_auto_create
          /\ ~decisions[i].rule_auto
          /\ bank_transactions[i].status = "non_riconciliato"
    /\ \E j \in DOMAIN decisions :
          /\ decisions[j].rule = NoId
          /\ EvaluatedForBank # {}

\* C21: in every reachable state balance snapshots are unique per (date,
\* type, source): no sequence or interleaving of imports, including files
\* that repeat a 61/64 record for the same day and concurrent imports of
\* overlapping files, persists two snapshots with the same date, type and
\* source.
C21_UniqueBalanceSnapshots ==
    \A i, j \in 1..Len(bank_balances) :
        /\ bank_balances[i].date = bank_balances[j].date
        /\ bank_balances[i].balance_type = bank_balances[j].balance_type
        /\ bank_balances[i].source = bank_balances[j].source
        => i = j

\* The file a parse step read and the movements it returned.
Parsed == flashed.category = "parsed"

\* The records that finalize a pending 62 record.
Finalizers == {"62", "64", "65", "EF"}

\* The position at which the 62 record at position i is finalized: the next
\* finalizer, or the end of input.
FinalizedAt(lines, i) ==
    LET later == {j \in (i + 1)..Len(lines) : lines[j].type \in Finalizers}
    IN IF later = {} THEN Len(lines) + 1
       ELSE CHOOSE j \in later : \A k \in later : j <= k

\* The 63 records between the 62 record at position i and its finalization.
Own63(lines, i) ==
    SelectSeq(SubSeq(lines, i + 1, FinalizedAt(lines, i) - 1),
              LAMBDA l : l.type = "63")

\* The date of the last valid day header before position k, 0 if none.
HeaderBefore(lines, k) ==
    LET hs == {j \in 1..(k - 1) : /\ lines[j].type = "RH"
                                  /\ ParseCbiDate(lines[j].date_str) # 0}
    IN IF hs = {} THEN 0
       ELSE ParseCbiDate(lines[CHOOSE j \in hs : \A h \in hs : h <= j].date_str)

\* The movement of the 62 record at position i, built once, when it is
\* finalized, from the record and its own 63 records.
MovementOf(lines, i) ==
    BuildTransaction(lines[i], Own63(lines, i),
                     HeaderBefore(lines, FinalizedAt(lines, i)))

Valid62(lines) ==
    {i \in 1..Len(lines) : lines[i].type = "62" /\ MovementOf(lines, i).valid}

\* C22: for every sequence of records, each 62 record is finalized exactly
\* once (at the next 62, at a 64/65/EF, or at end of input), yielding one
\* movement if it is valid and none otherwise; movements appear in the
\* output in the input order of their 62 records, and each 63 record
\* contributes only to the most recent 62 that is still open (63 records
\* with no open 62 contribute to no movement).
C22_MovementsAssembledInOrder ==
    Parsed =>
       LET lines == flashed.lines
           out == flashed.result.transactions
           valid == Valid62(lines)
       IN /\ Len(out) = Cardinality(valid)
          /\ \A i \in valid :
                out[Cardinality({j \in valid : j <= i})] = MovementOf(lines, i)

\* A file of a 63 record with no open 62, a 62 record, its 63 record and an
\* end record; and the movement is made of the 62 and the 63 after it.
C22_OrphanAndOwn63 ==
    /\ Parsed
    /\ Len(flashed.lines) = 4
    /\ flashed.lines[1].type = "63"
    /\ flashed.lines[2].type = "62"
    /\ flashed.lines[3].type = "63"
    /\ flashed.lines[4].type = "EF"
    /\ Len(flashed.result.transactions) = 1
    /\ flashed.result.transactions[1].raw_data = SubSeq(flashed.lines, 2, 3)

\* The name NameOf gives for the first line of sq it gives one for, "" if none.
FirstNameIn(sq, NameOf(_)) ==
    LET hits == {j \in 1..Len(sq) : NameOf(sq[j]) # ""}
    IN IF hits = {} THEN ""
       ELSE NameOf(sq[CHOOSE j \in hits : \A h \in hits : j <= h])

StructuredName(l) == IF l.tag = "YYY" THEN YyyName(l.content) ELSE ""

FreeTextName(l) ==
    IF l.tag \in {"YYY", "ID1", "RI1", "RI2"} THEN ""
    ELSE ExtractCounterpartFromText(l.content)

FallbackName(line_62) ==
    IF DescriptionCandidate(line_62.description) \in {"COMMISSIONI", "COMPETENZE"}
    THEN "" ELSE DescriptionCandidate(line_62.description)

\* C23: counterpart-name resolution follows the precedence structured YYY
\* name, then free-text heuristic tags, then the fallback on the 62
\* description: whenever a movement's 63 records contain a YYY record
\* carrying a name, the resulting counterpart name is that YYY name,
\* regardless of the order in which the YYY and free-text tag records appear;
\* the description fallback is used only when no 63 record produced a name.
C23_StructuredNameFirst ==
    Parsed =>
       \A k \in 1..Len(flashed.result.transactions) :
          LET mv == flashed.result.transactions[k]
              own == Tail(mv.raw_data)
          IN mv.counterpart_name =
                IF FirstNameIn(own, StructuredName) # ""
                THEN FirstNameIn(own, StructuredName)
                ELSE IF FirstNameIn(own, FreeTextName) # ""
                THEN FirstNameIn(own, FreeTextName)
                ELSE FallbackName(Head(mv.raw_data))

\* The movements returned for the 62 record at position i of the file.
MovementsFrom(i) ==
    {k \in 1..Len(flashed.result.transactions) :
        Head(flashed.result.transactions[k].raw_data) = flashed.lines[i]}

\* C24: every movement emitted by the parser, and hence every persisted
\* movement, has a strictly positive amount magnitude and a direction in
\* {C, D}: a D direction never makes the stored amount negative, and a 62
\* record with zero amount or any other direction flag produces no movement.
C24_PositiveAmountAndDirection ==
    Parsed =>
       /\ \A k \in 1..Len(flashed.result.transactions) :
             /\ flashed.result.transactions[k].amount > 0
             /\ flashed.result.transactions[k].direction \in {"C", "D"}
       /\ \A i \in 1..Len(flashed.lines) :
             /\ flashed.lines[i].type = "62"
             /\ \/ flashed.lines[i].amount_raw = "000000000000,00"
                \/ flashed.lines[i].direction \notin {"C", "D"}
             => MovementsFrom(i) = {}

\* C27: a 62 record whose own operation date is missing or invalid takes as
\* operation date the date of the day header (RH) under which it appears,
\* i.e. the most recent RH record preceding that 62 record in the input, for
\* every ordering of RH, 62, 63 and flush records; with no preceding valid RH
\* it yields no movement.
C27_DateOfPrecedingHeader ==
    Parsed =>
       \A i \in 1..Len(flashed.lines) :
          /\ flashed.lines[i].type = "62"
          /\ ParseCbiDate(flashed.lines[i].op_date_str) = 0
          => /\ HeaderBefore(flashed.lines, i) = 0 => MovementsFrom(i) = {}
             /\ \A k \in MovementsFrom(i) :
                   flashed.result.transactions[k].operation_date
                      = HeaderBefore(flashed.lines, i)

\* The summary call of worker w has returned or raised.
Notified(session) == session.outcome \in {"notified", "notify_failed"}

\* C25: a failure of the notification sink never fails the import: the
\* summary is sent only after the batch is committed, and when sending
\* raises, the committed movements, balances and links remain persisted and
\* the import still reports success.
C25_NotificationNeverFailsImport ==
    [][\A w \in Workers :
          Notified(sessions'[w]) /\ ~Notified(sessions[w])
          => /\ sessions[w].outcome = "committed"
             /\ bank_transactions' = bank_transactions
             /\ transactions' = transactions
             /\ bank_balances' = bank_balances
             /\ flashed'.category = "success"]_vars

\* The summary of an import of two movements and two balances raised; the
\* rows are stored and the report is the success report.
C25_RaisedAfterCommit ==
    /\ sessions[1].outcome = "notify_failed"
    /\ flashed.category = "success"
    /\ flashed.imported = 2
    /\ Cardinality(DOMAIN bank_transactions) = 2
    /\ Len(bank_balances) = 2

\* The ledger entries the movements of the batch of movement j that come
\* before j have claimed, in the tables bts and the decisions dec.
ClaimedEarlier(bts, dec, j) ==
    {dec[i].tx : i \in {x \in DOMAIN dec : /\ x < j
                                           /\ bts[x].import_batch_id = bts[j].import_batch_id
                                           /\ dec[x].tx # NoId}}

\* The best score seen for movement j among the entries of a source is the
\* score of an entry of that source that no earlier movement of the batch
\* has claimed.
BestIsUnclaimed(bts, txs, dec, j, source, best) ==
    best > 0 =>
       \E t \in DOMAIN txs \ ClaimedEarlier(bts, dec, j) :
          /\ txs[t].source = source
          /\ ComputeScore(bts[j], txs[t]) = best

\* C26: within one batch movements are reconciled one at a time in a fixed
\* order, and a ledger entry claimed by an earlier movement of the batch
\* (linked automatically or created by a rule) is absent from the candidate
\* pool of every later movement of the same batch, even though the batch is
\* not yet committed.
C26_ClaimedEntryLeavesLaterPools ==
    \A j \in DOMAIN decisions :
       /\ decisions[j].tx \notin ClaimedEarlier(bank_transactions, decisions, j)
       /\ BestIsUnclaimed(bank_transactions, transactions, decisions, j, "sdi",
                          decisions[j].sdi_best)
       /\ BestIsUnclaimed(bank_transactions, transactions, decisions, j, "manuale",
                          decisions[j].man_best)
       /\ BestIsUnclaimed(bank_transactions, transactions, decisions, j, "banca",
                          decisions[j].bank_best)

\* Two batches: in one the first debit was linked to an invoice that scores
\* 100 for the second debit too, which stayed pending; in the other the rule
\* created an entry for the first credit, an entry that scores 70 for the
\* second credit, which saw no bank-source candidate.
C26_SecondOfBatchPassedOver ==
    /\ \E i, j \in DOMAIN decisions :
          /\ i < j
          /\ bank_transactions[i].import_batch_id = bank_transactions[j].import_batch_id
          /\ decisions[i].stage = 2
          /\ ComputeScore(bank_transactions[j], transactions[decisions[i].tx]) = 100
          /\ decisions[j].stage = 0
    /\ \E i, j \in DOMAIN decisions :
          /\ i < j
          /\ bank_transactions[i].import_batch_id = bank_transactions[j].import_batch_id
          /\ decisions[i].stage = 1
          /\ ComputeScore(bank_transactions[j], transactions[decisions[i].tx]) = 70
          /\ decisions[j].bank_best = 0

\* C29: implicit invariant: in every reachable state a movement carries an
\* ignore reason only while its status is ignored; after any sequence of
\* ignore, restore, manual confirm, create-from-movement, rule re-apply and
\* ignore-reason deletion, no pending or reconciled movement has
\* ignore_reason_id set.
C29_ReasonOnlyWhileIgnored ==
    \A i \in DOMAIN bank_transactions :
       bank_transactions[i].ignore_reason_id # NoId
       => bank_transactions[i].status = "ignorato"


\* The movements whose link points at ledger entry t.
LinkedTo(t) ==
    {i \in DOMAIN bank_transactions :
        bank_transactions[i].matched_transaction_id = t}

\* C30: every ledger entry synthesized from a bank movement (source banca,
\* made by rule auto-create or by create-from-movement) is in every reachable
\* state the match target of exactly one movement, the one it was made from:
\* none is left without a linked movement, none is shared.
C30_SynthesizedEntryHasItsMovement ==
    \A t \in DOMAIN transactions :
       transactions[t].source = "banca" => Cardinality(LinkedTo(t)) = 1


\* The columns of a movement that the re-parse script must leave alone.
ReparseKept ==
    {"status", "matched_transaction_id", "matched_by", "matched_rule_id",
     "ignore_reason_id", "operation_date", "value_date", "amount", "direction",
     "causale_abi", "remittance_info", "reference_code", "import_batch_id",
     "raw_data"}

\* C28: a run of the re-parse script changes at most description,
\* counterpart_name, causale_description and dedup_hash of a movement, and
\* none of status, matched_transaction_id, matched_by, matched_rule_id and
\* ignore_reason_id; it never gives a movement a hash that another movement
\* holds at that moment, so no two movements share a hash afterwards; and a
\* dry run changes no field of any movement.
C28_ReparseTouchesOnlyParsedFields ==
    [][ /\ DOMAIN bank_transactions' = DOMAIN bank_transactions
        /\ \A i \in DOMAIN bank_transactions :
              \A f \in ReparseKept :
                 bank_transactions'[i][f] = bank_transactions[i][f]
        /\ flashed'.clashes = {}
        /\ \A i, j \in DOMAIN bank_transactions :
              bank_transactions'[i].dedup_hash = bank_transactions'[j].dedup_hash
              => i = j
        /\ flashed'.category = "dry_run"
           => bank_transactions' = bank_transactions ]_vars

\* C28 witness: the script has run for real, replaced the hash of one movement,
\* left the hash of another because a third movement holds it, and changed
\* the name of the movement whose hash it left.
C28_CollisionSkippedNameUpdated ==
    /\ flashed.category = "reparse"
    /\ flashed.rehashed # {}
    /\ \E i \in flashed.skipped :
          /\ i \in flashed.updated
          /\ reparse_transaction(bank_transactions[i]).dedup_hash
                # bank_transactions[i].dedup_hash
          /\ reparse_transaction(bank_transactions[i]).counterpart_name
                = bank_transactions[i].counterpart_name

====
